---- MODULE Spec2Model ----
(***************************************************************************)
(* Verification model of the CLIProxyAPIPlus dispatch plane.               *)
(*                                                                         *)
(* Part 1 (Spec, FairSpec): one executor run - Execute or ExecuteStream of *)
(*   the Continue, Windsurf, v0 and Bolt executors, the streaming producer *)
(*   goroutine, its consumer, the request context and the usage reporter.  *)
(* Part 2 (SpecPoll): the OAuth device-flow poll loop                      *)
(*   DeviceFlowClient.PollForToken with its ticker and deadline.           *)
(* Part 3 (SpecCache): ensureAPIToken of the Continue and Windsurf         *)
(*   executors with their token caches, concurrent callers and a clock.    *)
(* Part 4 (SpecLogin): Login of the Continue and Cursor authenticators,    *)
(*   stage by stage.                                                       *)
(* Part 5 (SpecSave): ContinueTokenStorage.SaveTokenToFile and the          *)
(*   credential file it writes, with failures and crashes of the process.  *)
(* Part 6 (SpecTranslate): the translator registrations of the package     *)
(*   init functions at process start, then requests of the Continue and    *)
(*   Windsurf executors that translate and send.                           *)
(* Part 7 (SpecConvert): the pass-through transformers of the Cursor,       *)
(*   Windsurf and Continue translator packages and injectBoltContext of    *)
(*   the Bolt executor, applied to inputs drawn from bounded sets.         *)
(* Part 8 (SpecAuths): the credentials of the auth manager in listing       *)
(*   order, HealthHandler.GetHealth over them and the manager's select.    *)
(* Part 9 (SpecFactory): ProviderFactory with concurrent                    *)
(*   UpdateConfiguration calls and readers of the provider map.            *)
(* Part 10 (SpecRetry): BaseProvider.retryWithBackoff and the operation     *)
(*   it invokes.                                                           *)
(***************************************************************************)
EXTENDS Naturals, Integers, Sequences, FiniteSets, TLC

(***************************************************************************)
(* Bounds of the model.                                                    *)
(***************************************************************************)
\* upstream lines one streaming body can carry
MaxLines == 2
\* chunks the streaming translator yields for one line
MaxParts == 2
\* slow_down answers one login can receive
MaxSlowDowns == 2
\* longest time a token request takes, in seconds (the HTTP client gives up
\* after 30 s, oauth.go:34)
MaxLatency == 8
\* capacity of the Continue output channel; the code uses 100
\* (continue_executor.go:229), scaled down so that a full buffer is reached
ChanCap == 1
\* last minute of the token-cache clock
MaxClock == 22
\* clock advances within one behaviour of the token caches
MaxTicks == 4
\* token exchanges the callers of one credential start
MaxExchanges == 2

(***************************************************************************)
(* Part 1: executor runs                                                   *)
(***************************************************************************)
VARIABLES
    exec,        \* executor of the run: "continue", "windsurf", "v0", "bolt"
    mode,        \* "none", "execute" or "stream"
    direct,      \* Bolt: from == to (direct SSE forwarding, no translator)
    pc,          \* "idle" | "scan" | "send" | "senderr" | "done"
    cancelled,   \* the request context is done
    consumer,    \* "none" | "receiving" | "stopped"
    ch,          \* buffered content of the output channel
    received,    \* chunks the consumer has received, in order
    produced,    \* chunks obtained from the translator so far, in order
    parts,       \* chunks of the current line not yet sent
    lineNo,      \* upstream lines scanned so far
    body,        \* upstream body: "none" | "open" | "closed"
    closeCount,  \* number of close(out) executed
    sendOnClosed,\* a send was attempted on the closed channel
    rep,         \* the usage reporter of the request
    endKind,     \* how the run ended
    gotBytes,    \* an HTTP response was received from the upstream
    upstreamCalls, \* chat requests sent upstream by this call
    hasToken,    \* the credential yields an upstream token or API key
    upStatus,    \* HTTP status of the upstream answer (0: no answer)
    ret          \* what the call returned: [err, payload, stream]

runVars == <<exec, mode, direct, pc, cancelled, consumer, ch, received,
             produced, parts, lineNo, body, closeCount, sendOnClosed, rep,
             endKind, gotBytes, upstreamCalls, hasToken, upStatus, ret>>

(***************************************************************************)
(* Part 2: state of one DeviceFlowClient.PollForToken call.  Times are in  *)
(* seconds since the call computed its deadline.                           *)
(***************************************************************************)
VARIABLES
    pollPc,      \* "init" | "select" | "exchange" | "done"
    now,         \* the clock
    dcInterval,  \* deviceCode.Interval
    dcExpiresIn, \* deviceCode.ExpiresIn
    interval,    \* the poll interval in force
    deadline,    \* the polling deadline
    nextTick,    \* when the ticker fires next
    tickPending, \* a tick is waiting in ticker.C
    pollCtxDone, \* the login context is done
    result,      \* what PollForToken returned: [kind, cause]
    lastPoll,    \* start of the latest token request (-1: none yet)
    lastGap,     \* time between the latest two token requests (-1: none)
    lastResp,    \* outcome of the latest answered token request
    lastInterval,\* interval in force when that request was made
    allPending,  \* every token request so far was answered authorization_pending
    nSlow,       \* slow_down answers so far
    tokenStatus  \* HTTP status of the answer that yielded the token (0: none)

pollVars == <<pollPc, now, dcInterval, dcExpiresIn, interval, deadline, nextTick,
              tickPending, pollCtxDone, result, lastPoll, lastGap, lastResp,
              lastInterval, allPending, nSlow, tokenStatus>>

(***************************************************************************)
(* Part 3: the token caches.  One credential per executor; times are in    *)
(* minutes.  cachedAt, basis, prov and from of an entry and the c*/w*       *)
(* records of the callers are history kept for the properties.  wcache is   *)
(* the entry under the credential's current access token.                  *)
(***************************************************************************)
VARIABLES
    cexec,       \* executor whose cache is exercised: "none" | "continue" | "windsurf"
    clk,         \* the clock (time.Now())
    nTicks,      \* clock advances so far
    ccache,      \* ContinueExecutor.cache[auth.ID]
    wcache,      \* WindsurfExecutor.cache[accessToken]
    cpc,         \* per caller of ensureAPIToken: "idle" | "exchange" | "store" | "done"
    cnow,        \* per caller: its reading `now` of the clock
    cseen,       \* per caller: expiresAt of the entry it found (-1: none)
    cdec,        \* per caller: "none" | "cached" | "refresh" | "failed"
    cgot,        \* per caller: the token returned (0: none)
    nExch,       \* token exchanges started so far
    cred,        \* the credential (*Auth) the callers pass to ensureAPIToken
    cfrom        \* per caller: the access token its token came from ("none")

cacheVars == <<cexec, clk, nTicks, ccache, wcache, cpc, cnow, cseen, cdec, cgot,
               nExch, cred, cfrom>>

(***************************************************************************)
(* Part 4: one Login call of a device-flow authenticator.                  *)
(***************************************************************************)
VARIABLES
    lprov,       \* "none" | "continue" | "cursor"
    lpc,         \* "idle" | "device" | "wait" | "verify" | "done"
    ldevice,     \* outcome of StartDeviceFlow: "none" | "ok" | "failed"
    lpoll,       \* what PollForToken returned: [kind, cause]
    luinfo,      \* the answer of the user-info endpoint
    luser,       \* the bundle's Username / UserInfo
    lverify,     \* the answer of the second-stage exchange
    lret,        \* what Login returned: [auth, err, msg]
    lident,      \* the provider account that authorizes this login
    lprev        \* id and account of the latest earlier successful login

loginVars == <<lprov, lpc, ldevice, lpoll, luinfo, luser, lverify, lret, lident,
               lprev>>

(***************************************************************************)
(* Part 5: the credential file and one SaveTokenToFile call at a time.      *)
(* The content of the file is the version of the storage it was encoded    *)
(* from and how many of its FileChunks chunks are in the file.              *)
(***************************************************************************)
VARIABLES
    file,        \* [ver, len]: content of the file at authFilePath
    spc,         \* "idle" | "mkdir" | "create" | "encode"
    snew,        \* version of the storage being saved
    sret,        \* what the last call returned: "none", "nil", an error
    nSaves       \* calls started so far

saveVars == <<file, spc, snew, sret, nSaves>>

(***************************************************************************)
(* Part 6: the translator registry and one executor request at a time.      *)
(***************************************************************************)
VARIABLES
    registry,    \* the (From, To) pairs the registry has an entry for
    reglog,      \* the pairs of the Register calls so far, in order
    tpc,         \* "idle" | "translated" | "done"
    treq,        \* the request: executor, from, to, stream, body
    tsent,       \* TRUE when httpClient.Do was called for the request
    terr         \* what the request returned

translateVars == <<registry, reglog, tpc, treq, tsent, terr>>

(***************************************************************************)
(* Part 7: the last call of a transformer and of injectBoltContext.         *)
(***************************************************************************)
VARIABLES
    conv,        \* [p, kind, in, out]: transformer of provider p applied to in
    bolt         \* [wc, in, out]: injectBoltContext on metadata and system

convertVars == <<conv, bolt>>

(***************************************************************************)
(* Part 8: the auth manager's credentials and the last health snapshot and  *)
(* selection computed from them.                                           *)
(***************************************************************************)
VARIABLES
    auths,       \* authManager.List(): the credentials, in listing order
    health,      \* the last health response: status and provider summary
    picked       \* the last result of select: provider asked, error, index

authsVars == <<auths, health, picked>>

(***************************************************************************)
(* Part 9: one ProviderFactory.  A configuration is the set of optional     *)
(* providers it holds a key for.                                           *)
(***************************************************************************)
VARIABLES
    fcfg,        \* f.cfg
    fold,        \* the configuration f.cfg held before the last update
    fproviders,  \* the keys of f.providers
    upc,         \* per updater: "idle" | "cleared"
    uarg,        \* per updater: the cfg argument of its call
    ucalls,      \* UpdateConfiguration calls started so far
    robs         \* what the last reader saw: the provider set, old and new cfg

factoryVars == <<fcfg, fold, fproviders, upc, uarg, ucalls, robs>>

(***************************************************************************)
(* Part 10: one provider running retryWithBackoff calls one at a time.      *)
(***************************************************************************)
VARIABLES
    rcfg,         \* this.config.maxRetries of the provider making the call
    rmax,         \* the maxRetries parameter of the running call
    attempt,      \* the loop variable of retryWithBackoff
    invocations,  \* times the call has invoked operation()
    rpc,          \* "idle" | "running" | "returned" | "thrown" | "exhausted"
    lastError     \* lastError of the call

retryVars == <<rcfg, rmax, attempt, invocations, rpc, lastError>>

vars ==
    <<runVars, pollVars, cacheVars, loginVars, saveVars, translateVars, convertVars, authsVars, factoryVars,
      retryVars>>

Executors == {"continue", "windsurf", "v0", "bolt"}

LineKinds == {"data", "usage", "done", "other"}

\* StreamChunk{Err: errScan}
ErrChunk == <<0, 0>>

(***************************************************************************)
(* Usage reporter of the executor package, as section 4.7 of the           *)
(* specification describes it: one record per request, guarded against a   *)
(* second publication.                                                     *)
(***************************************************************************)
NoReporter ==
    [created |-> FALSE, cancelled |-> FALSE, success |-> 0, failure |-> 0, usage |-> FALSE]

newUsageReporter ==
    [created |-> TRUE, cancelled |-> FALSE, success |-> 0, failure |-> 0, usage |-> FALSE]

Published(r) == r.success + r.failure > 0

\* publish(detail): the success record with the token usage, at most once
publish(r) ==
    IF r.created /\ ~Published(r) THEN [r EXCEPT !.success = 1, !.usage = TRUE] ELSE r

publishFailure(r) == IF r.created /\ ~Published(r) THEN [r EXCEPT !.failure = 1] ELSE r

markCancelled(r) == [r EXCEPT !.cancelled = TRUE]

\* ensurePublished: if nothing was published yet, a cancelled request counts
\* as failed and any other as a success without usage detail
ensurePublished(r) ==
    IF r.cancelled
    THEN publishFailure(r)
    ELSE IF r.created /\ ~Published(r) THEN [r EXCEPT !.success = 1] ELSE r

trackFailure(r, err) == IF err THEN publishFailure(r) ELSE r

\* sdktranslator.TranslateStream: the chunks for one upstream line
TranslateStream(line, n) == [i \in 1..n |-> <<line, i>>]

(***************************************************************************)
(* Per-executor facts read off the four executors.                         *)
(***************************************************************************)
\* make(chan StreamChunk, 100) in Continue, make(chan StreamChunk) elsewhere
Capacity(e) == IF e = "continue" THEN ChanCap ELSE 0

\* the send in the producer loop is a select with <-ctx.Done() (Continue only)
SelectsOnCtx(e) == e = "continue"

\* the reporter is created before the credentials are looked at (v0, Bolt)
\* or after ensureAPIToken succeeded (Continue, Windsurf)
ReporterAtEntry(e) == e \in {"v0", "bolt"}

\* the executor refuses to run without a token or API key
ChecksToken(e) == e \in {"continue", "windsurf", "v0"}

\* the ways the synchronous part of a call can end
CallOutcomes(e) ==
    {"build_error", "transport_error", "status_error", "ok"}
    \cup (IF ChecksToken(e) THEN {"no_token"} ELSE {})
    \cup (IF e = "bolt" THEN {"decode_error"} ELSE {})

\* outcomes reached after an HTTP response arrived
AfterResponse == {"status_error", "decode_error", "read_error", "ok"}

\* outcomes reached after the chat request was handed to the HTTP client
AfterSend == AfterResponse \cup {"transport_error"}

\* chat requests one call hands to the HTTP client: a single httpClient.Do,
\* outside any loop
SendsRetrying(o) ==
    IF o = "transport_error" THEN 2 ELSE IF o \in AfterSend THEN 1 ELSE 0

Sends(o) == IF o \in AfterSend THEN 1 ELSE 0

\* http.StatusUnauthorized
StatusUnauthorized == 401

\* http.StatusOK
StatusOK == 200

\* non-2xx status codes of an upstream answer
ErrorStatuses == {401, 500}

\* the body of a non-2xx upstream answer, as a sequence of bytes
ErrorBody == <<"b1", "b2">>

\* io.ReadAll on body b when the read stops after k bytes: the bytes read
\* so far (and an error when k < Len(b))
ReadAll(b, k) == SubSeq(b, 1, k)

NoErr == [type |-> "none", code |-> 0, msg |-> <<>>]

\* statusErr{code: code, msg: msg}
statusErr(code, msg) == [type |-> "status", code |-> code, msg |-> msg]

\* an error without a status code (fmt.Errorf, a transport or read error)
plainErr == [type |-> "plain", code |-> 0, msg |-> <<>>]

NoReturn == [err |-> NoErr, payload |-> FALSE, stream |-> FALSE]

\* the error of a call that found no token or API key: ensureAPIToken of
\* Continue answers with fmt.Errorf, Windsurf and v0 with statusErr 401
NoTokenError(e) ==
    IF e = "continue" THEN plainErr ELSE statusErr(StatusUnauthorized, <<"missing">>)

\* the token check: an executor that checks returns "no_token" exactly when
\* the credential yields none; Bolt goes on with an empty key
TokenDecides(e, tok, o) == ChecksToken(e) => ((o = "no_token") <=> ~tok)

\* reading the body of a non-2xx answer failed and the handler gives up with
\* the read error (Windsurf ExecuteStream); the others drop the read error
ReturnsReadErr(e, m) == e = "windsurf" /\ m = "stream"

\* the status of the upstream answer of a call ending with outcome o
UpstreamStatus(e, m, o, c) ==
    IF o = "status_error" \/ (o = "read_error" /\ ReturnsReadErr(e, m)) THEN c
    ELSE IF o \in AfterResponse THEN StatusOK
    ELSE 0

\* the (result, error) pair of mode m of executor e ending with outcome o,
\* the upstream having answered c and k bytes of its body having been read
Returned(e, m, o, c, k) ==
    CASE o = "ok" -> [err |-> NoErr, payload |-> m = "execute", stream |-> m = "stream"]
      [] o = "no_token" -> [err |-> NoTokenError(e), payload |-> FALSE, stream |-> FALSE]
      [] o = "status_error" ->
            [err |-> statusErr(c, ReadAll(ErrorBody, k)), payload |-> FALSE,
             stream |-> FALSE]
      [] OTHER -> [err |-> plainErr, payload |-> FALSE, stream |-> FALSE]

\* how far the body of a non-2xx answer is read before outcome o is reached
ReadPoints(e, m, o) ==
    IF o = "status_error" /\ ~ReturnsReadErr(e, m)
    THEN 0..Len(ErrorBody)
    ELSE {Len(ErrorBody)}

\* the deferred closers that run when the producer goroutine returns by `path`
DeferredOnExitLeaky(e, path) ==
    IF path = "cancelled" THEN {} ELSE {"body", "chan"}

DeferredOnExit(e, path) == {"body", "chan"}

\* parts[i] of the range loop over the translator output
NextPartLast(ps) == ps[Len(ps)]

NextPart(ps) == Head(ps)

RunInit ==
    /\ exec = "none"
    /\ mode = "none"
    /\ direct = FALSE
    /\ pc = "idle"
    /\ cancelled = FALSE
    /\ consumer = "none"
    /\ ch = <<>>
    /\ received = <<>>
    /\ produced = <<>>
    /\ parts = <<>>
    /\ lineNo = 0
    /\ body = "none"
    /\ closeCount = 0
    /\ sendOnClosed = FALSE
    /\ rep = NoReporter
    /\ endKind = "none"
    /\ gotBytes = FALSE
    /\ upstreamCalls = 0
    /\ hasToken = FALSE
    /\ upStatus = 0
    /\ ret = NoReturn

\* the reporter as the deferred trackFailure leaves it when the call returns
\* with outcome o before the producer goroutine exists
ReporterAtReturn(e, o) ==
    IF o = "no_token" /\ ~ReporterAtEntry(e)
    THEN NoReporter
    ELSE trackFailure(newUsageReporter, o # "ok")

(***************************************************************************)
(* ExecuteStream, up to the `go` statement.                                *)
(***************************************************************************)
ExecuteStream(e) ==
    /\ pc = "idle"
    /\ \E o \in CallOutcomes(e) \cup (IF e = "windsurf" THEN {"read_error"} ELSE {}),
          d \in BOOLEAN, tok \in BOOLEAN, c \in ErrorStatuses :
        /\ (d => e = "bolt")
        /\ TokenDecides(e, tok, o)
        /\ exec' = e
        /\ mode' = "stream"
        /\ direct' = d
        /\ hasToken' = tok
        /\ upStatus' = UpstreamStatus(e, "stream", o, c)
        /\ \E k \in ReadPoints(e, "stream", o) : ret' = Returned(e, "stream", o, c, k)
        /\ rep' = ReporterAtReturn(e, o)
        /\ gotBytes' = (o \in AfterResponse)
        /\ upstreamCalls' = Sends(o)
        /\ IF o = "ok"
           THEN /\ pc' = "scan"
                /\ consumer' = "receiving"
                /\ body' = "open"
                /\ endKind' = "none"
           ELSE /\ pc' = "done"
                /\ consumer' = "none"
                /\ body' = IF o \in AfterResponse THEN "closed" ELSE "none"
                /\ endKind' = o
    /\ UNCHANGED <<cancelled, ch, received, produced, parts, lineNo,
                   closeCount, sendOnClosed>>

(***************************************************************************)
(* Execute (non-streaming), the whole call.                                *)
(***************************************************************************)
\* the reporter after a 2xx body was read; usage: the body carries token usage;
\* viaStream: Bolt translating (from != to) reads the body as SSE lines
ReporterAfterBody(e, usage, viaStream) ==
    CASE e \in {"continue", "windsurf"} ->
            ensurePublished(IF usage THEN publish(newUsageReporter) ELSE newUsageReporter)
      [] e = "v0" -> ensurePublished(publish(newUsageReporter))
      [] e = "bolt" ->
            IF viaStream
            THEN (IF usage THEN publish(newUsageReporter) ELSE newUsageReporter)
            ELSE publish(newUsageReporter)

Execute(e) ==
    /\ pc = "idle"
    /\ \E o \in CallOutcomes(e) \cup {"read_error"}, usage \in BOOLEAN, d \in BOOLEAN,
          tok \in BOOLEAN, c \in ErrorStatuses :
        /\ (d => e = "bolt")
        /\ TokenDecides(e, tok, o)
        /\ exec' = e
        /\ mode' = "execute"
        /\ direct' = d
        /\ hasToken' = tok
        /\ upStatus' = UpstreamStatus(e, "execute", o, c)
        /\ \E k \in ReadPoints(e, "execute", o) : ret' = Returned(e, "execute", o, c, k)
        /\ rep' = IF o = "ok"
                  THEN ReporterAfterBody(e, usage, e = "bolt" /\ ~d)
                  ELSE ReporterAtReturn(e, o)
        /\ gotBytes' = (o \in AfterResponse)
        /\ upstreamCalls' = Sends(o)
        /\ body' = IF o \in AfterResponse THEN "closed" ELSE "none"
        /\ endKind' = o
        /\ pc' = "done"
    /\ UNCHANGED <<cancelled, consumer, ch, received, produced, parts, lineNo,
                   closeCount, sendOnClosed>>

(***************************************************************************)
(* The producer goroutine of a streaming call.                             *)
(***************************************************************************)
\* return from the goroutine by `path` with reporter r: the deferred closers run
StreamExit(path, r) ==
    /\ pc' = "done"
    /\ endKind' = path
    /\ rep' = r
    /\ body' = IF "body" \in DeferredOnExit(exec, path) THEN "closed" ELSE body
    /\ closeCount' = IF "chan" \in DeferredOnExit(exec, path)
                     THEN closeCount + 1 ELSE closeCount
    /\ UNCHANGED <<exec, mode, direct, cancelled, consumer, ch, received,
                   produced, parts, lineNo, sendOnClosed, gotBytes, upstreamCalls,
                   hasToken, upStatus, ret>>

\* one line was scanned; the reporter becomes r and ps are the chunks to forward
TakeLine(r, ps) ==
    /\ lineNo' = lineNo + 1
    /\ rep' = r
    /\ parts' = ps
    /\ produced' = produced \o ps
    /\ pc' = IF ps = <<>> THEN "scan" ELSE "send"
    /\ UNCHANGED <<exec, mode, direct, cancelled, consumer, ch, received, body,
                   closeCount, sendOnClosed, endKind, gotBytes, upstreamCalls,
                   hasToken, upStatus, ret>>

\* the scanner failed: failure is published and the error chunk is to be sent
ScanFailed ==
    /\ rep' = publishFailure(rep)
    /\ pc' = "senderr"
    /\ UNCHANGED <<exec, mode, direct, cancelled, consumer, ch, received,
                   produced, parts, lineNo, body, closeCount, sendOnClosed,
                   endKind, gotBytes, upstreamCalls,
                   hasToken, upStatus, ret>>

\* ContinueExecutor.streamResponse: scanner.Scan(), the ctx check and the translator
ContinueScan ==
    /\ pc = "scan"
    /\ exec = "continue"
    /\ \/ /\ lineNo < MaxLines
          /\ \E n \in 0..MaxParts :
                IF cancelled
                THEN StreamExit("cancelled", ensurePublished(markCancelled(rep)))
                ELSE TakeLine(rep, TranslateStream(lineNo + 1, n))
       \/ \E err \in BOOLEAN :
             StreamExit(IF err THEN "scan_error" ELSE "eof", ensurePublished(rep))

\* WindsurfExecutor.ExecuteStream goroutine: one pass of the scan loop
WindsurfScan ==
    /\ pc = "scan"
    /\ exec = "windsurf"
    /\ \/ /\ lineNo < MaxLines
          /\ \E k \in LineKinds, n \in 0..MaxParts :
                IF k = "done"
                THEN TakeLine(rep, <<>>)
                ELSE TakeLine(IF k = "usage" THEN publish(rep) ELSE rep,
                              TranslateStream(lineNo + 1, n))
       \/ StreamExit("eof", ensurePublished(rep))
       \/ ScanFailed

\* V0Executor.ExecuteStream goroutine: one pass of the scan loop
V0Scan ==
    /\ pc = "scan"
    /\ exec = "v0"
    /\ \/ /\ lineNo < MaxLines
          /\ \E k \in LineKinds, n \in 0..MaxParts :
                IF k = "other"
                THEN TakeLine(rep, <<>>)
                ELSE TakeLine(IF k = "usage" THEN publish(rep) ELSE rep,
                              TranslateStream(lineNo + 1, n))
       \/ StreamExit("eof", ensurePublished(rep))
       \/ ScanFailed

\* BoltExecutor.ExecuteStream goroutine: one pass of either scan loop
BoltScan ==
    /\ pc = "scan"
    /\ exec = "bolt"
    /\ \/ /\ lineNo < MaxLines
          /\ \E k \in LineKinds, n \in 0..MaxParts :
                TakeLine(IF k = "usage" THEN publish(rep) ELSE rep,
                         IF direct THEN <<(<<lineNo + 1, 1>>)>>
                                   ELSE TranslateStream(lineNo + 1, n))
       \/ StreamExit("eof", rep)
       \/ ScanFailed

\* out <- StreamChunk{...} inside the range loop over the chunks of a line
SendChunk ==
    /\ pc = "send"
    /\ parts # <<>>
    /\ IF Capacity(exec) = 0
       THEN /\ consumer = "receiving"
            /\ received' = Append(received, NextPart(parts))
            /\ ch' = ch
       ELSE /\ Len(ch) < Capacity(exec)
            /\ ch' = Append(ch, NextPart(parts))
            /\ received' = received
    /\ parts' = Tail(parts)
    /\ pc' = IF Tail(parts) = <<>> THEN "scan" ELSE "send"
    /\ sendOnClosed' = (sendOnClosed \/ closeCount > 0)
    /\ UNCHANGED <<exec, mode, direct, cancelled, consumer, produced, lineNo,
                   body, closeCount, rep, endKind, gotBytes, upstreamCalls,
                   hasToken, upStatus, ret>>

\* case <-ctx.Done() of the select around the send
CtxDoneInSend ==
    /\ pc = "send"
    /\ SelectsOnCtx(exec)
    /\ cancelled
    /\ StreamExit("cancelled", ensurePublished(markCancelled(rep)))

\* out <- StreamChunk{Err: errScan}, then the rest of the goroutine
SendErrChunk ==
    /\ pc = "senderr"
    /\ consumer = "receiving"
    /\ received' = Append(received, ErrChunk)
    /\ sendOnClosed' = (sendOnClosed \/ closeCount > 0)
    /\ pc' = "done"
    /\ endKind' = "scan_error"
    /\ rep' = IF exec = "v0" THEN ensurePublished(rep) ELSE rep
    /\ body' = IF "body" \in DeferredOnExit(exec, "scan_error") THEN "closed" ELSE body
    /\ closeCount' = IF "chan" \in DeferredOnExit(exec, "scan_error")
                     THEN closeCount + 1 ELSE closeCount
    /\ UNCHANGED <<exec, mode, direct, cancelled, consumer, ch, produced, parts,
                   lineNo, gotBytes, upstreamCalls,
                   hasToken, upStatus, ret>>

(***************************************************************************)
(* The environment of the producer: the consumer and the request context.  *)
(***************************************************************************)
\* the consumer takes a chunk out of the (buffered) channel
Receive ==
    /\ consumer = "receiving"
    /\ ch # <<>>
    /\ received' = Append(received, Head(ch))
    /\ ch' = Tail(ch)
    /\ UNCHANGED <<exec, mode, direct, pc, cancelled, consumer, produced, parts,
                   lineNo, body, closeCount, sendOnClosed, rep, endKind,
                   gotBytes, upstreamCalls,
                   hasToken, upStatus, ret>>

\* the consumer stops receiving from the channel
ConsumerStop ==
    /\ consumer = "receiving"
    /\ consumer' = "stopped"
    /\ UNCHANGED <<exec, mode, direct, pc, cancelled, ch, received, produced,
                   parts, lineNo, body, closeCount, sendOnClosed, rep, endKind,
                   gotBytes, upstreamCalls,
                   hasToken, upStatus, ret>>

\* the request context is cancelled while the stream is running
CancelCtx ==
    /\ mode = "stream"
    /\ pc \in {"scan", "send", "senderr"}
    /\ ~cancelled
    /\ cancelled' = TRUE
    /\ UNCHANGED <<exec, mode, direct, pc, consumer, ch, received, produced,
                   parts, lineNo, body, closeCount, sendOnClosed, rep, endKind,
                   gotBytes, upstreamCalls,
                   hasToken, upStatus, ret>>

Producer ==
    \/ ContinueScan
    \/ WindsurfScan
    \/ V0Scan
    \/ BoltScan
    \/ SendChunk
    \/ CtxDoneInSend
    \/ SendErrChunk

(***************************************************************************)
(* Part 2: DeviceFlowClient.PollForToken                                   *)
(***************************************************************************)
\* defaultPollInterval, in seconds
defaultPollInterval == 5

\* maxPollDuration, in seconds
maxPollDuration == 900

\* interval += 5 * time.Second
slowDownStep == 5

\* deviceCode.Interval values of the device-code answer
Intervals == {0, 5, 7}

\* deviceCode.ExpiresIn values of the device-code answer
ExpiresIns == {20, 1200}

\* seconds between computing the deadline and creating the ticker
StartLags == {0, 1}

\* durations of one token request
Latencies == {0, MaxLatency}

\* the OAuth `error` member of a token-endpoint answer ("" when absent)
OAuthErrors == {"", "authorization_pending", "slow_down", "expired_token",
                "access_denied", "invalid_grant"}

\* a token-endpoint exchange: transport failure, or a JSON answer
Answers ==
    [transport : {"failed"}, status : {0}, error : {""}, access_token : {""}]
    \cup [transport : {"ok"}, status : {200, 400}, error : OAuthErrors,
          access_token : {"", "at"}]

NoResult == [kind |-> "none", cause |-> "none"]

Err(kind, cause) == [kind |-> kind, cause |-> cause]

\* DeviceFlowClient.exchangeDeviceCode: the outcome for one answer
exchangeDeviceCode(a) ==
    IF a.transport # "ok" THEN Err("token_exchange_failed", "transport")
    ELSE IF a.error # ""
         THEN CASE a.error = "authorization_pending" -> Err("authorization_pending", "none")
                [] a.error = "slow_down" -> Err("slow_down", "none")
                [] a.error = "expired_token" -> Err("device_code_expired", "none")
                [] a.error = "access_denied" -> Err("access_denied", "none")
                [] OTHER -> Err("oauth_error", a.error)
         ELSE IF a.access_token = ""
              THEN Err("token_exchange_failed", "empty access token")
              ELSE [kind |-> "token", cause |-> a.access_token]

Min(a, b) == IF a < b THEN a ELSE b

\* interval := max(deviceCode.Interval, defaultPollInterval)
InitialInterval(i) == IF i < defaultPollInterval THEN defaultPollInterval ELSE i

\* deadline := min(now + maxPollDuration, now + ExpiresIn) when ExpiresIn > 0
Deadline(t, e) ==
    IF e > 0 THEN Min(t + maxPollDuration, t + e) ELSE t + maxPollDuration

\* time.Now().After(deadline)
PastDeadline(t, d) == t > d

\* error types the loop answers with `continue` instead of returning
LoopsOnPendingOnly == {"authorization_pending"}

LoopsOnDenied == {"authorization_pending", "slow_down", "access_denied"}

LoopsOn == {"authorization_pending", "slow_down"}

\* the first scheduled tick after time t of a ticker due at `due` with period p
TickAfter(due, p, t) ==
    IF due > t THEN due ELSE due + p * (((t - due) \div p) + 1)

\* ticker.Reset(p) at time t: the next tick is due one period later and a
\* tick still waiting in ticker.C is dropped (timer channels of Go 1.23 and
\* later; the documented build is go1.24.0)
ResetDueKeepingPeriod(t, p) == t + p - slowDownStep

ResetDue(t, p) == t + p

PollInit ==
    /\ pollPc = "init"
    /\ now = 0
    /\ dcInterval = 0
    /\ dcExpiresIn = 0
    /\ interval = 0
    /\ deadline = 0
    /\ nextTick = 0
    /\ tickPending = FALSE
    /\ pollCtxDone = FALSE
    /\ result = NoResult
    /\ lastPoll = -1
    /\ lastGap = -1
    /\ lastResp = "none"
    /\ lastInterval = 0
    /\ allPending = TRUE
    /\ nSlow = 0
    /\ tokenStatus = 0

\* PollForToken up to the loop: interval, deadline and ticker
PollForToken ==
    /\ pollPc = "init"
    /\ \E i \in Intervals, e \in ExpiresIns, lag \in StartLags :
        /\ dcInterval' = i
        /\ dcExpiresIn' = e
        /\ interval' = InitialInterval(i)
        /\ deadline' = Deadline(0, e)
        /\ now' = lag
        /\ nextTick' = lag + InitialInterval(i)
    /\ pollPc' = "select"
    /\ UNCHANGED <<tickPending, pollCtxDone, result, lastPoll, lastGap, lastResp,
                   lastInterval, allPending, nSlow, tokenStatus>>

\* case <-ticker.C: the deadline check and the start of the token request
TickerFire ==
    /\ pollPc = "select"
    /\ LET t == IF tickPending THEN now ELSE nextTick IN
        /\ now' = t
        /\ tickPending' = FALSE
        /\ nextTick' = IF tickPending THEN nextTick ELSE nextTick + interval
        /\ IF PastDeadline(t, deadline)
           THEN /\ pollPc' = "done"
                /\ result' = Err("polling_timeout", "none")
                /\ UNCHANGED <<lastPoll, lastGap>>
           ELSE /\ pollPc' = "exchange"
                /\ result' = result
                /\ lastGap' = IF lastPoll < 0 THEN -1 ELSE t - lastPoll
                /\ lastPoll' = t
    /\ UNCHANGED <<dcInterval, dcExpiresIn, interval, deadline, pollCtxDone,
                   lastResp, lastInterval, allPending, nSlow, tokenStatus>>

\* case <-ctx.Done()
PollCtxDone ==
    /\ pollPc = "select"
    /\ pollCtxDone
    /\ pollPc' = "done"
    /\ result' = Err("polling_timeout", "ctx")
    /\ UNCHANGED <<now, dcInterval, dcExpiresIn, interval, deadline, nextTick,
                   tickPending, pollCtxDone, lastPoll, lastGap, lastResp,
                   lastInterval, allPending, nSlow, tokenStatus>>

\* the token request returns after d seconds with answer a; the switch on the
\* error type decides between another round and returning
ExchangeReturns ==
    /\ pollPc = "exchange"
    /\ \E a \in Answers, d \in Latencies :
        LET r == exchangeDeviceCode(a)
            t == now + d
            fired == nextTick <= t
        IN
        /\ (pollCtxDone => a.transport = "failed")
        /\ (r.kind = "slow_down" => nSlow < MaxSlowDowns)
        /\ now' = t
        /\ lastResp' = r.kind
        /\ lastInterval' = interval
        /\ allPending' = (allPending /\ r.kind = "authorization_pending")
        /\ IF r.kind = "slow_down"
           THEN /\ interval' = interval + slowDownStep
                /\ nextTick' = ResetDue(t, interval + slowDownStep)
                /\ tickPending' = FALSE
                /\ nSlow' = nSlow + 1
           ELSE /\ interval' = interval
                /\ nextTick' = TickAfter(nextTick, interval, t)
                /\ tickPending' = (tickPending \/ fired)
                /\ nSlow' = nSlow
        /\ IF r.kind \in LoopsOn
           THEN /\ pollPc' = "select"
                /\ result' = result
           ELSE /\ pollPc' = "done"
                /\ result' = r
        /\ tokenStatus' = IF r.kind = "token" THEN a.status ELSE tokenStatus
    /\ UNCHANGED <<dcInterval, dcExpiresIn, deadline, pollCtxDone, lastPoll,
                   lastGap>>

\* the caller's context is cancelled
PollCancel ==
    /\ pollPc \in {"select", "exchange"}
    /\ ~pollCtxDone
    /\ pollCtxDone' = TRUE
    /\ UNCHANGED <<pollPc, now, dcInterval, dcExpiresIn, interval, deadline,
                   nextTick, tickPending, result, lastPoll, lastGap, lastResp,
                   lastInterval, allPending, nSlow, tokenStatus>>

(***************************************************************************)
(* Part 3: ensureAPIToken and the token caches                             *)
(***************************************************************************)
\* continueTokenCacheTTL, in minutes
continueTokenCacheTTL == 25

\* windsurfTokenTTL, in minutes
windsurfTokenTTL == 25

\* tokenExpiryBuffer, in minutes
tokenExpiryBuffer == 5

\* concurrent callers of ensureAPIToken for the one Continue credential
Callers == {1, 2}

\* minutes that pass between two events
TimeSteps == {1, 19}

\* lifetime the exchange endpoint grants (expires_at - now); 0: the answer
\* carries no expires_at
ProviderLifetimes == {0, 3, 60}

\* outcomes of LoadStorage and GetContinueAPIToken
ExchangeAnswers ==
    [kind : {"error", "empty"}, life : {0}]
    \cup [kind : {"ok"}, life : ProviderLifetimes]

NoEntry == [found |-> FALSE, token |-> 0, expiresAt |-> 0, cachedAt |-> 0,
            basis |-> 0, prov |-> 0, from |-> "none"]

\* now.Before(cached.expiresAt.Add(-tokenExpiryBuffer))
continueFreshNoBuffer(t, exp) == t < exp

continueFreshTwiceBuffer(t, exp) == t < exp - tokenExpiryBuffer - tokenExpiryBuffer

continueFresh(t, exp) == t < exp - tokenExpiryBuffer

\* cached.expiresAt.After(time.Now().Add(tokenExpiryBuffer))
windsurfFresh(t, exp) == exp > t + tokenExpiryBuffer

\* expiry := now.Add(continueTokenCacheTTL), replaced by
\* time.Unix(apiToken.ExpiresAt, 0) when ExpiresAt > 0; t is the `now` read
\* at the start of the call
ExpiryAlwaysTTL(t, prov) == t + continueTokenCacheTTL

Expiry(t, prov) == IF prov > 0 THEN prov ELSE t + continueTokenCacheTTL

\* the credential of the callers: its OAuth access token in metadata and in
\* storage, and its status
Credential ==
    [access_token |-> "at", storage_token |-> "at", status |-> "active"]

\* auth.LoadStorage(storage): fills the local storage value from the
\* credential's durable view and leaves the credential as it is
LoadStorage(c) == [auth |-> c, access_token |-> c.storage_token]

\* the credential after ensureAPIToken obtained the exchange token tok: the
\* token goes to e.cache only
CredAfterExchangeRefreshing(c, tok) ==
    [c EXCEPT !.access_token = "exchanged", !.storage_token = "exchanged"]

CredAfterExchange(c, tok) == LoadStorage(c).auth

\* the credential after a new login under the same id: Login puts the new
\* OAuth access token into the metadata and the storage
Relogged(c) == [c EXCEPT !.access_token = "at2", !.storage_token = "at2"]

\* the Windsurf token of a credential is its access token
WindsurfToken(accessToken) == IF accessToken = "at" THEN 1 ELSE 2

CacheInit ==
    /\ cred = Credential
    /\ cfrom = [i \in Callers |-> "none"]
    /\ cexec = "none"
    /\ clk = 0
    /\ nTicks = 0
    /\ ccache = NoEntry
    /\ wcache = NoEntry
    /\ cpc = [i \in Callers |-> "idle"]
    /\ cnow = [i \in Callers |-> 0]
    /\ cseen = [i \in Callers |-> -1]
    /\ cdec = [i \in Callers |-> "none"]
    /\ cgot = [i \in Callers |-> 0]
    /\ nExch = 0

\* time passes
Tick ==
    /\ nTicks < MaxTicks
    /\ nTicks' = nTicks + 1
    /\ \E d \in TimeSteps :
        /\ clk + d <= MaxClock
        /\ clk' = clk + d
    /\ UNCHANGED <<cexec, ccache, wcache, cpc, cnow, cseen, cdec, cgot, nExch,
                   cred, cfrom>>

\* Continue ensureAPIToken up to the exchange: the cache read under RLock,
\* now := time.Now(), the freshness test and, for a refresh, LoadStorage and
\* the request that exchanges storage.AccessToken
ContinueCheck(i) ==
    /\ cexec \in {"none", "continue"}
    /\ cexec' = "continue"
    /\ cpc[i] = "idle"
    /\ cnow' = [cnow EXCEPT ![i] = clk]
    /\ cseen' = [cseen EXCEPT ![i] = IF ccache.found THEN ccache.expiresAt ELSE -1]
    /\ IF ccache.found /\ continueFresh(clk, ccache.expiresAt)
       THEN /\ cpc' = [cpc EXCEPT ![i] = "done"]
            /\ cdec' = [cdec EXCEPT ![i] = "cached"]
            /\ cgot' = [cgot EXCEPT ![i] = ccache.token]
            /\ cfrom' = [cfrom EXCEPT ![i] = ccache.from]
            /\ nExch' = nExch
       ELSE /\ nExch < MaxExchanges
            /\ cpc' = [cpc EXCEPT ![i] = "exchange"]
            /\ cdec' = [cdec EXCEPT ![i] = "refresh"]
            /\ cgot' = [cgot EXCEPT ![i] = nExch + 1]
            /\ cfrom' = [cfrom EXCEPT ![i] = LoadStorage(cred).access_token]
            /\ nExch' = nExch + 1
    /\ UNCHANGED <<clk, nTicks, ccache, wcache, cred>>

\* Continue ensureAPIToken from the answer of the exchange to the return:
\* the error returns, the expiry and the cache write under Lock
ContinueExchangeReturns(i) ==
    /\ cexec = "continue"
    /\ cpc[i] = "exchange"
    /\ cpc' = [cpc EXCEPT ![i] = "done"]
    /\ \E a \in ExchangeAnswers :
        IF a.kind = "ok"
        THEN LET prov == IF a.life > 0 THEN clk + a.life ELSE 0 IN
             /\ ccache' = [found |-> TRUE, token |-> cgot[i],
                           expiresAt |-> Expiry(cnow[i], prov),
                           cachedAt |-> clk, basis |-> cnow[i], prov |-> prov,
                           from |-> cfrom[i]]
             /\ cred' = CredAfterExchange(cred, cgot[i])
             /\ UNCHANGED <<cdec, cgot>>
        ELSE /\ cdec' = [cdec EXCEPT ![i] = "failed"]
             /\ cgot' = [cgot EXCEPT ![i] = 0]
             /\ ccache' = ccache
             /\ cred' = LoadStorage(cred).auth
    /\ UNCHANGED <<cexec, clk, nTicks, wcache, cnow, cseen, nExch, cfrom>>

\* Windsurf ensureAPIToken with a non-empty access token, up to RUnlock: the
\* access token read from the metadata, the cache read under that key and
\* the freshness test
WindsurfCheck(i) ==
    /\ cexec \in {"none", "windsurf"}
    /\ cexec' = "windsurf"
    /\ cpc[i] = "idle"
    /\ cnow' = [cnow EXCEPT ![i] = clk]
    /\ cseen' = [cseen EXCEPT ![i] = IF wcache.found THEN wcache.expiresAt ELSE -1]
    /\ IF wcache.found /\ windsurfFresh(clk, wcache.expiresAt)
       THEN /\ cpc' = [cpc EXCEPT ![i] = "done"]
            /\ cdec' = [cdec EXCEPT ![i] = "cached"]
            /\ cgot' = [cgot EXCEPT ![i] = wcache.token]
            /\ cfrom' = [cfrom EXCEPT ![i] = wcache.from]
       ELSE /\ cpc' = [cpc EXCEPT ![i] = "store"]
            /\ cdec' = [cdec EXCEPT ![i] = "refresh"]
            /\ cgot' = cgot
            /\ cfrom' = [cfrom EXCEPT ![i] = cred.access_token]
    /\ UNCHANGED <<clk, nTicks, ccache, wcache, nExch, cred>>

\* Windsurf ensureAPIToken after the test failed: expiresAt from a new
\* reading of the clock and the entry written under Lock; the access token
\* itself is the token
WindsurfStore(i) ==
    /\ cexec = "windsurf"
    /\ cpc[i] = "store"
    /\ cpc' = [cpc EXCEPT ![i] = "done"]
    /\ cgot' = [cgot EXCEPT ![i] = WindsurfToken(cfrom[i])]
    /\ wcache' = [found |-> TRUE, token |-> WindsurfToken(cfrom[i]),
                  expiresAt |-> clk + windsurfTokenTTL,
                  cachedAt |-> clk, basis |-> clk, prov |-> 0,
                  from |-> cfrom[i]]
    /\ UNCHANGED <<cexec, clk, nTicks, ccache, cnow, cseen, cdec, nExch, cred,
                   cfrom>>

\* the caller has its answer and leaves; it may call again
CallerReturns(i) ==
    /\ cpc[i] = "done"
    /\ cpc' = [cpc EXCEPT ![i] = "idle"]
    /\ cnow' = [cnow EXCEPT ![i] = 0]
    /\ cseen' = [cseen EXCEPT ![i] = -1]
    /\ cdec' = [cdec EXCEPT ![i] = "none"]
    /\ cgot' = [cgot EXCEPT ![i] = 0]
    /\ cfrom' = [cfrom EXCEPT ![i] = "none"]
    /\ UNCHANGED <<cexec, clk, nTicks, ccache, wcache, nExch, cred>>

\* between two calls the user logs in again under the same credential id:
\* the credential now holds a new access token.  e.cache of the Continue
\* executor is keyed by auth.ID and keeps its entry; the Windsurf cache is
\* keyed by the access token and has no entry under the new one
Relogin ==
    /\ \A i \in Callers : cpc[i] = "idle"
    /\ cred = Credential
    /\ cred' = Relogged(cred)
    /\ wcache' = NoEntry
    /\ UNCHANGED <<cexec, clk, nTicks, ccache, cpc, cnow, cseen, cdec, cgot,
                   nExch, cfrom>>

(***************************************************************************)
(* Part 4: ContinueAuthenticator.Login and CursorAuthenticator.Login       *)
(***************************************************************************)
Providers == {"continue", "cursor"}

\* what PollForToken can return: the outcome of an answer that ends the
\* loop, or ErrPollingTimeout from the deadline or the context
PollResults ==
    {r \in {exchangeDeviceCode(a) : a \in Answers} : r.kind \notin LoopsOn}
    \cup {Err("polling_timeout", "none"), Err("polling_timeout", "ctx")}

\* provider accounts, by username; distinct accounts have distinct usernames
\* and distinct emails
Identities == {"alice", "bob"}

Email(x) == IF x = "alice" THEN "a@x" ELSE "b@x"

\* answers of the user-info endpoint for account x
UserInfoAnswersOf(x) == [ok : BOOLEAN, username : {"", x}, email : {"", Email(x)}]

UserInfoAnswers == UNION {UserInfoAnswersOf(x) : x \in Identities}

NoUserInfo == [ok |-> FALSE, username |-> "", email |-> ""]

\* DeviceFlowClient.FetchUserInfo: the name, or "" with an error
FetchUserInfo(a) ==
    IF ~a.ok \/ (a.username = "" /\ a.email = "") THEN ""
    ELSE IF a.username # "" THEN a.username ELSE a.email

\* WaitForAuthorization: a failed user-info request is logged and the
\* username becomes "unknown"
BundleUserAsFetched(a) == FetchUserInfo(a)

BundleUser(a) == IF FetchUserInfo(a) = "" THEN "unknown" ELSE FetchUserInfo(a)

\* answers of the second-stage exchange GET /auth/token: a 2xx answer, or a
\* failure in transport or by a non-2xx status
VerifyAnswers ==
    [ok : {TRUE}, how : {"ok"}, token : {"", "apit"}, expires : {0, 7}]
    \cup [ok : {FALSE}, how : {"transport", "status"}, token : {""}, expires : {0}]

NoVerify == [ok |-> FALSE, how |-> "none", token |-> "none", expires |-> 0]

\* GetContinueAPIToken succeeded
VerifyOk(v) == v.ok /\ v.token # ""

\* time.Now().UnixMilli() at the end of a login
LoginTimes == {1, 2}

\* the authenticator runs a second-stage exchange after polling
SecondStage(p) == p = "continue"

\* CreateTokenStorage(bundle): the durable view of the credential
NoStorage == [access_token |-> "", username |-> "", type |-> "none"]

CreateTokenStorage(p, user, tok) == [access_token |-> tok, username |-> user, type |-> p]

\* no credential; access_token, timestamp and api_token_expires_at are the
\* metadata keys (timestamp and api_token_expires_at 0: key absent)
NoAuth == [id |-> <<>>, provider |-> "none", label |-> "", access_token |-> "",
           timestamp |-> 0, api_token_expires_at |-> 0, storage |-> NoStorage]

\* text supplied by the provider: an OAuth error_description, the body of an
\* HTTP answer
ProviderTexts == {"<error_description>", "<body>"}

\* ways a device-code request or a second-stage exchange fails
RequestFailures == {"transport", "status"}

\* the cause text of a failed request: a non-2xx answer is reported as
\* fmt.Errorf("status %d: %s", resp.StatusCode, string(bodyBytes))
CauseText(how) ==
    IF how = "status" THEN <<"status: ", "<body>">> ELSE <<"<go error>">>

\* OAuth error codes GetUserFriendlyMessage has a text of its own for
KnownOAuthCodes == {"access_denied", "invalid_request", "server_error"}

\* GetUserFriendlyMessage(err) for the error r of PollForToken: a fixed text
\* per AuthenticationError type and per known OAuth code; for any other
\* OAuthError, Continue formats its Description and Cursor the whole error
GetUserFriendlyMessage(p, r) ==
    IF r.kind # "oauth_error" THEN <<"friendly", r.kind>>
    ELSE IF p = "continue" /\ r.cause \in KnownOAuthCodes THEN <<"friendly", r.cause>>
    ELSE IF p = "continue" THEN <<"Authentication failed: ", "<error_description>">>
    ELSE <<"Authentication failed: ", "cursor oauth: ", r.cause, "<error_description>">>

\* return nil, err (the error of the failing stage, with its message)
LoginError(stage, msg) == [auth |-> NoAuth, err |-> stage, msg |-> msg]

\* return &coreauth.Auth{...}, nil; api_token_expires_at is set only when
\* the provider's ExpiresAt is positive (0: absent)
LoginSuccessNoTimestamp(p, user, tok, exp, ts) ==
    [auth |-> [id |-> <<p, "-", user, ".json">>, provider |-> p, label |-> user,
               access_token |-> tok, timestamp |-> 0,
               api_token_expires_at |-> IF exp > 0 THEN exp ELSE 0,
               storage |-> CreateTokenStorage(p, user, tok)],
     err |-> "none", msg |-> <<>>]

LoginSuccess(p, user, tok, exp, ts) ==
    [auth |-> [id |-> <<p, "-", user, ".json">>, provider |-> p, label |-> user,
               access_token |-> tok, timestamp |-> ts,
               api_token_expires_at |-> IF exp > 0 THEN exp ELSE 0,
               storage |-> CreateTokenStorage(p, user, tok)],
     err |-> "none", msg |-> <<>>]

\* Login after the second-stage exchange answered v
VerifiedIgnoringError(p, user, tok, v, ts) == LoginSuccess(p, user, tok, v.expires, ts)

VerifiedStoringToken(p, user, tok, v, ts) ==
    IF VerifyOk(v)
    THEN LoginSuccess(p, user, v.token, v.expires, ts)
    ELSE LoginError("verify", <<p, ": failed to verify Continue.dev access: ">>)

Verified(p, user, tok, v, ts) ==
    IF VerifyOk(v)
    THEN LoginSuccess(p, user, tok, v.expires, ts)
    ELSE LoginError("verify",
                    <<p, ": failed to verify Continue.dev access: ",
                      "token_exchange_failed">>
                    \o (IF v.ok THEN <<"empty continue api token">>
                        ELSE CauseText(v.how)))

NoPrev == [id |-> <<>>, ident |-> "none"]

NoLoginResult == [auth |-> NoAuth, err |-> "none", msg |-> <<>>]

LoginInit ==
    /\ lprov = "none"
    /\ lpc = "idle"
    /\ ldevice = "none"
    /\ lpoll = NoResult
    /\ luinfo = NoUserInfo
    /\ luser = ""
    /\ lverify = NoVerify
    /\ lret = NoLoginResult
    /\ lident = "none"
    /\ lprev = NoPrev

\* Login up to StartDeviceFlow: the configuration check
Login(p) ==
    /\ lpc = "idle"
    /\ lprov' = p
    /\ \E x \in Identities : lident' = x
    /\ \E cfgNil \in BOOLEAN :
        IF cfgNil
        THEN /\ lpc' = "done"
             /\ lret' = LoginError("config", <<"cliproxy auth: configuration is required">>)
        ELSE /\ lpc' = "device"
             /\ lret' = lret
    /\ UNCHANGED <<ldevice, lpoll, luinfo, luser, lverify, lprev>>

\* authSvc.StartDeviceFlow returns
StartDeviceFlow ==
    /\ lpc = "device"
    /\ \E how \in {"ok"} \cup RequestFailures :
        IF how = "ok"
        THEN /\ ldevice' = "ok"
             /\ lpc' = "wait"
             /\ lret' = lret
        ELSE /\ ldevice' = "failed"
             /\ lpc' = "done"
             /\ lret' = LoginError("device_code",
                                   <<lprov, ": failed to start device flow: ",
                                     "device_code_failed">> \o CauseText(how))
    /\ UNCHANGED <<lprov, lpoll, luinfo, luser, lverify, lident, lprev>>

\* authSvc.WaitForAuthorization returns: polling, then the user info; Cursor
\* builds its Auth right after it
WaitForAuthorization ==
    /\ lpc = "wait"
    /\ \E r \in PollResults, u \in UserInfoAnswersOf(lident), ts \in LoginTimes :
        /\ lpoll' = r
        /\ IF r.kind # "token"
           THEN /\ lpc' = "done"
                /\ lret' = LoginError("polling",
                                      <<lprov, ": ">> \o GetUserFriendlyMessage(lprov, r))
                /\ UNCHANGED <<luinfo, luser>>
           ELSE /\ luinfo' = u
                /\ luser' = BundleUser(u)
                /\ IF SecondStage(lprov)
                   THEN /\ lpc' = "verify"
                        /\ lret' = lret
                   ELSE /\ lpc' = "done"
                        /\ lret' = LoginSuccess(lprov, BundleUser(u), r.cause, 0, ts)
    /\ UNCHANGED <<lprov, ldevice, lverify, lident, lprev>>

\* authSvc.GetContinueAPIToken returns and Login builds its result
VerifyAccess ==
    /\ lpc = "verify"
    /\ \E v \in VerifyAnswers, ts \in LoginTimes :
        /\ lverify' = v
        /\ lret' = Verified(lprov, luser, lpoll.cause, v, ts)
    /\ lpc' = "done"
    /\ UNCHANGED <<lprov, ldevice, lpoll, luinfo, luser, lident, lprev>>

\* Login has returned; the credential of a successful login is kept and the
\* next login can begin
LoginReturns ==
    /\ lpc = "done"
    /\ lprev' = IF lret.err = "none"
                THEN [id |-> lret.auth.id, ident |-> lident]
                ELSE lprev
    /\ lprov' = "none"
    /\ lpc' = "idle"
    /\ ldevice' = "none"
    /\ lpoll' = NoResult
    /\ luinfo' = NoUserInfo
    /\ luser' = ""
    /\ lverify' = NoVerify
    /\ lret' = NoLoginResult
    /\ lident' = "none"

(***************************************************************************)
(* Specifications                                                          *)
(***************************************************************************)
(***************************************************************************)
(* Part 5: ContinueTokenStorage.SaveTokenToFile                             *)
(***************************************************************************)
\* the encoded storage reaches the file in at most this many pieces
FileChunks == 3

\* calls of SaveTokenToFile in one behaviour
MaxSaves == 4

\* the complete encoding of version v of the storage
Complete(v) == [ver |-> v, len |-> FileChunks]

\* os.Create(authFilePath): the file is opened and truncated to length zero
Create(f, v) == [ver |-> v, len |-> 0]

\* json.NewEncoder(f).Encode(ts) when k chunks reached the file
Encode(f, k) == [f EXCEPT !.len = k]

\* the error Encode returns when k chunks reached the file
EncodeError(k) ==
    IF k = FileChunks THEN "nil" ELSE "failed to write token to file"

SaveInit ==
    /\ file = Complete(0)
    /\ spc = "idle"
    /\ snew = 0
    /\ sret = "none"
    /\ nSaves = 0

\* a caller saves the next version of the storage
SaveTokenToFile ==
    /\ spc = "idle"
    /\ nSaves < MaxSaves
    /\ nSaves' = nSaves + 1
    /\ snew' = nSaves + 1
    /\ sret' = "none"
    /\ spc' = "mkdir"
    /\ file' = file

\* os.MkdirAll(filepath.Dir(authFilePath), 0700)
SaveMkdirAll ==
    /\ spc = "mkdir"
    /\ \E ok \in BOOLEAN :
        IF ok
        THEN spc' = "create" /\ sret' = sret
        ELSE spc' = "idle" /\ sret' = "failed to create directory"
    /\ UNCHANGED <<file, snew, nSaves>>

\* os.Create(authFilePath)
SaveCreate ==
    /\ spc = "create"
    /\ \E ok \in BOOLEAN :
        IF ok
        THEN /\ file' = Create(file, snew)
             /\ spc' = "encode"
             /\ sret' = sret
        ELSE /\ file' = file
             /\ spc' = "idle"
             /\ sret' = "failed to create token file"
    /\ UNCHANGED <<snew, nSaves>>

\* json.NewEncoder(f).Encode(ts), then the deferred f.Close()
SaveEncode ==
    /\ spc = "encode"
    /\ \E k \in 0..FileChunks :
        /\ file' = Encode(file, k)
        /\ sret' = EncodeError(k)
    /\ spc' = "idle"
    /\ UNCHANGED <<snew, nSaves>>

\* the process dies in the middle of a save and is started again
SaveCrash ==
    /\ spc # "idle"
    /\ spc' = "idle"
    /\ sret' = "crashed"
    /\ UNCHANGED <<file, snew, nSaves>>

(***************************************************************************)
(* Part 6: translator registrations and translating executors              *)
(***************************************************************************)
\* the formats of internal/constant
Formats ==
    {"OpenAI", "OpenaiResponse", "Claude", "Gemini", "GeminiCLI", "Codex",
     "Cursor", "Windsurf", "Continue", "Antigravity", "Kiro"}

\* the dialects clients speak
ClientFormats == {"OpenAI", "OpenaiResponse", "Claude", "Gemini"}

\* the provider dialects of the executors added by this repository
ProviderFormats == {"Cursor", "Windsurf", "Continue"}

\* translator.Register(from, to, ...) of each package init function, as the
\* pair <<from, to>>
init_claude_windsurf == <<"Windsurf", "Claude">>

init_codex_windsurf == <<"Windsurf", "Codex">>

init_gemini_cli_windsurf == <<"Windsurf", "GeminiCLI">>

init_gemini_windsurf == <<"Windsurf", "Gemini">>

\* the imported packages whose init functions are in other files: the
\* packages translator/openai/... of the base repository, then cursor/gemini,
\* cursor/openai/responses, windsurf/gemini, windsurf/gemini-cli and
\* windsurf/openai/responses
init_upstream ==
    << <<"Claude", "OpenAI">>, <<"Gemini", "OpenAI">>,
       <<"GeminiCLI", "OpenAI">>, <<"OpenAI", "OpenAI">>,
       <<"OpenaiResponse", "OpenAI">>,
       <<"Gemini", "Cursor">>, <<"OpenaiResponse", "Cursor">>,
       <<"Gemini", "Windsurf">>, <<"GeminiCLI", "Windsurf">>,
       <<"OpenaiResponse", "Windsurf">> >>

init_openai_windsurf_swapped == <<"OpenAI", "Windsurf">>

init_openai_windsurf == <<"Windsurf", "OpenAI">>

init_cursor_claude == <<"Claude", "Cursor">>

init_cursor_openai_chat_completions == <<"OpenAI", "Cursor">>

init_windsurf_claude == <<"Claude", "Windsurf">>

init_windsurf_openai_chat_completions == <<"OpenAI", "Windsurf">>

init_continue_openai_chat_completions == <<"Continue", "OpenAI">>

init_openai_continue == <<"OpenAI", "Continue">>

init_continue_claude == <<"Continue", "Claude">>

init_claude_continue == <<"Claude", "Continue">>

\* the registrations of the blank imports of package translator, in the
\* order of the import list
Inits ==
    << init_claude_windsurf, init_codex_windsurf, init_gemini_cli_windsurf,
       init_gemini_windsurf >>
    \o init_upstream
    \o << init_openai_windsurf, init_cursor_claude,
          init_cursor_openai_chat_completions, init_windsurf_claude,
          init_windsurf_openai_chat_completions,
          init_continue_openai_chat_completions, init_openai_continue,
          init_continue_claude, init_claude_continue >>

\* translator.Register: the entry of the pair is set
Register(reg, pair) == reg \cup {pair}

\* sdktranslator.TranslateRequest(from, to, model, payload, stream): one
\* result, the bytes to send; without an entry for the pair the payload
TranslateRequest(reg, from, to) ==
    IF <<from, to>> \in reg THEN "translated" ELSE "payload"

\* to := sdktranslator.FromString("openai") of the three executors
UpstreamFormat(x) == "OpenAI"

\* the "stream" and "stream_options.include_usage" fields of a body, each
\* "absent", "true" or "false"
NoFields == [stream |-> "absent", include_usage |-> "absent"]

\* the sjson.SetBytes calls of Execute (stream = FALSE) and ExecuteStream
\* (stream = TRUE) on the translated body with fields f: Continue sets
\* "stream", Windsurf sets "stream" and, streaming, include_usage, v0 sets
\* neither
SetStreamFields(x, stream, f) ==
    CASE x = "continue" -> [f EXCEPT !.stream = IF stream THEN "true" ELSE "false"]
      [] x = "windsurf" ->
            IF stream
            THEN [f EXCEPT !.stream = "true", !.include_usage = "true"]
            ELSE [f EXCEPT !.stream = "false"]
      [] x = "v0" -> f

NoReq == [exec |-> "none", from |-> "none", to |-> "none", stream |-> FALSE,
          body |-> "none", sent |-> NoFields]

TranslateInit ==
    /\ registry = {}
    /\ reglog = << >>
    /\ tpc = "idle"
    /\ treq = NoReq
    /\ tsent = FALSE
    /\ terr = "none"

\* the next package init function runs
PackageInit ==
    /\ Len(reglog) < Len(Inits)
    /\ registry' = Register(registry, Inits[Len(reglog) + 1])
    /\ reglog' = Append(reglog, Inits[Len(reglog) + 1])
    /\ UNCHANGED <<tpc, treq, tsent, terr>>

\* Execute (stream = FALSE) or ExecuteStream (stream = TRUE) of executor x
\* up to the translation of the request; tok is whether the executor
\* obtained its token or key
TranslateExecute(x, from, stream, tok) ==
    /\ Len(reglog) = Len(Inits)
    /\ tpc \in {"idle", "done"}
    /\ tsent' = FALSE
    /\ IF tok
       THEN /\ treq' = [exec |-> x, from |-> from, to |-> UpstreamFormat(x),
                        stream |-> stream,
                        body |-> TranslateRequest(registry, from,
                                                  UpstreamFormat(x)),
                        sent |-> NoFields]
            /\ tpc' = "translated"
            /\ terr' = "none"
       ELSE /\ treq' = [exec |-> x, from |-> from, to |-> UpstreamFormat(x),
                        stream |-> stream, body |-> "none",
                        sent |-> NoFields]
            /\ tpc' = "done"
            /\ terr' = "token error"
    /\ UNCHANGED <<registry, reglog>>

\* the rest of Execute / ExecuteStream: the stream fields are set on the
\* translated body, whose fields are f, the request is built from it and
\* httpClient.Do is called
TranslateSend(f) ==
    /\ tpc = "translated"
    /\ treq' = [treq EXCEPT !.sent = SetStreamFields(treq.exec, treq.stream, f)]
    /\ tsent' = TRUE
    /\ \E o \in {"nil", "transport error", "status error"} : terr' = o
    /\ tpc' = "done"
    /\ UNCHANGED <<registry, reglog>>

(***************************************************************************)
(* Part 7: pass-through transformers and injectBoltContext                  *)
(***************************************************************************)
\* longest line or body given to a transformer, in bytes
MaxLineLen == 3

\* lines and bodies are sequences of bytes
ByteStrings == UNION {[1..n -> {"a", "b"}] : n \in 0..MaxLineLen}

\* the transformers registered for provider p with OpenAI: the request
\* transformer and the non-streaming one return their argument; the streaming
\* one of Cursor and Windsurf returns nil for an empty line and the line as
\* the only chunk otherwise, the one of Continue always one chunk
Convert(p, kind, in) ==
    IF kind = "stream"
    THEN IF p \in {"cursor", "windsurf"} /\ Len(in) = 0 THEN << >> ELSE <<in>>
    ELSE in

\* the system field after injectBoltContext when every key that is present
\* counts
injectBoltContextWhenPresent(wc, system) ==
    IF wc # "absent"
    THEN [kind |-> "array",
          items |-> <<"boltSystemContext">>
                    \o (IF system.kind = "array" THEN system.items ELSE << >>)]
    ELSE system

\* the system field after injectBoltContext(body, metadata)
injectBoltContext(wc, system) ==
    IF wc = "true"
    THEN [kind |-> "array",
          items |-> <<"boltSystemContext">>
                    \o (IF system.kind = "array" THEN system.items ELSE << >>)]
    ELSE system

NoConv == [p |-> "none", kind |-> "none", in |-> << >>, out |-> << >>]

NoBolt == [wc |-> "none", in |-> [kind |-> "absent", items |-> << >>],
           out |-> [kind |-> "absent", items |-> << >>]]

ConvertInit ==
    /\ conv = NoConv
    /\ bolt = NoBolt

\* a transformer registered for (OpenAI, p) or (p, OpenAI) is called; the
\* request transformers of Continue are in files that are not modelled
ConvertCall(p, kind, in) ==
    /\ ~(p = "continue" /\ kind = "request")
    /\ conv' = [p |-> p, kind |-> kind, in |-> in, out |-> Convert(p, kind, in)]
    /\ bolt' = NoBolt

\* BoltExecutor.injectBoltContext is called; wc is metadata["webcontainer"]
\* (absent, a boolean, a string, a number) and system the "system" field of
\* the body (absent, a string, or an array of items)
BoltInject(wc, system) ==
    /\ bolt' = [wc |-> wc, in |-> system, out |-> injectBoltContext(wc, system)]
    /\ conv' = NoConv

(***************************************************************************)
(* Part 8: HealthHandler and the auth manager's select                      *)
(***************************************************************************)
\* credentials registered with the auth manager
MaxAuths == 2

HealthProviders == {"cursor", "continue"}

\* eligibility without the expiration test
EligibleIgnoringExpiry(a) ==
    ~a.disabled /\ a.status = "active" /\ ~a.unavailable

\* the credentials select may return
Eligible(a) ==
    ~a.disabled /\ a.status = "active" /\ ~a.unavailable /\ ~a.expired

\* one iteration of the loop of computeProviderHealth over credential a
HealthStep(s, a) ==
    LET p == a.provider
        counted ==
            CASE a.status = "error" ->
                    [s EXCEPT !.error = @ + 1, !.status[p] = "error",
                              !.valid[p] = "false"]
              [] a.status # "error" /\ a.unavailable ->
                    [s EXCEPT !.unavailable = @ + 1,
                              !.status[p] = "unavailable",
                              !.valid[p] = "false"]
              [] a.status = "active" /\ ~a.unavailable ->
                    [s EXCEPT !.active = @ + 1,
                              !.status[p] = IF @ = "none" THEN "connected" ELSE @,
                              !.valid[p] = "true"]
              [] OTHER -> s
    IN  IF a.disabled
        THEN [s EXCEPT !.disabled = @ + 1, !.status[p] = "disabled",
                       !.valid[p] = "false"]
        ELSE IF a.expired
             THEN [counted EXCEPT !.valid[p] = "false", !.status[p] = "expired"]
             ELSE counted

\* computeProviderHealth(authManager) for the listing as; a provider without
\* an entry in ConnectionStatus or TokensValid has "none"
RECURSIVE computeProviderHealth(_)
computeProviderHealth(as) ==
    IF as = << >>
    THEN [total |-> 0, active |-> 0, error |-> 0, disabled |-> 0,
          unavailable |-> 0,
          status |-> [p \in HealthProviders |-> "none"],
          valid |-> [p \in HealthProviders |-> "none"]]
    ELSE [HealthStep(computeProviderHealth(SubSeq(as, 1, Len(as) - 1)),
                     as[Len(as)])
            EXCEPT !.total = Len(as)]

NoHealth == [status |-> "none", providers |-> computeProviderHealth(<< >>)]

NoPick == [provider |-> "none", err |-> "none", index |-> 0]

AuthsInit ==
    /\ auths = << >>
    /\ health = NoHealth
    /\ picked = NoPick

\* a credential is registered with the manager
AddAuth(a) ==
    /\ Len(auths) < MaxAuths
    /\ auths' = Append(auths, a)
    /\ health' = NoHealth
    /\ picked' = NoPick

\* HealthHandler.GetHealth
GetHealth ==
    /\ LET s == computeProviderHealth(auths)
       IN  health' = [status |-> IF s.error > 0 \/ s.total = 0
                                 THEN "degraded" ELSE "healthy",
                      providers |-> s]
    /\ picked' = NoPick
    /\ auths' = auths

\* select(provider): an eligible credential of the provider, whichever the
\* rotation policy prefers, or ErrNoCredential
Select(p) ==
    /\ LET usable == {i \in DOMAIN auths :
                        auths[i].provider = p /\ Eligible(auths[i])}
       IN  IF usable = {}
           THEN picked' = [provider |-> p, err |-> "ErrNoCredential", index |-> 0]
           ELSE \E i \in usable :
                    picked' = [provider |-> p, err |-> "nil", index |-> i]
    /\ health' = NoHealth
    /\ auths' = auths

(***************************************************************************)
(* Part 9: ProviderFactory                                                  *)
(***************************************************************************)
\* UpdateConfiguration calls in one behaviour
MaxUpdates == 3

\* goroutines calling UpdateConfiguration
Updaters == {1, 2}

\* providers registered only when the configuration has their key
OptionalProviders == {"gemini", "claude"}

\* providers initializeProviders registers for every non-nil configuration
AlwaysRegistered == {"gemini-cli", "antigravity", "cursor"}

\* the providers initializeProviders registers for configuration c
ProvidersOf(c) == c \cup AlwaysRegistered

\* the configuration initializeProviders works from when it reads the
\* argument its caller was given
cfgOfCaller(current, arg) == arg

\* the configuration initializeProviders works from: f.cfg, read under the
\* lock
cfgRead(current, arg) == current

NoObs == [set |-> {"none"}, old |-> {}, new |-> {}]

\* NewProviderFactory(cfg) with a configuration without optional keys
FactoryInit ==
    /\ fcfg = {}
    /\ fold = {}
    /\ fproviders = ProvidersOf({})
    /\ upc = [u \in Updaters |-> "idle"]
    /\ uarg = [u \in Updaters |-> {}]
    /\ ucalls = 0
    /\ robs = NoObs

\* UpdateConfiguration(c), first critical section: f.cfg = cfg and
\* f.providers = make(map), then Unlock
UpdateConfiguration(u, c) ==
    /\ upc[u] = "idle"
    /\ ucalls < MaxUpdates
    /\ ucalls' = ucalls + 1
    /\ fold' = fcfg
    /\ fcfg' = c
    /\ fproviders' = {}
    /\ upc' = [upc EXCEPT ![u] = "cleared"]
    /\ uarg' = [uarg EXCEPT ![u] = c]
    /\ robs' = robs

\* UpdateConfiguration, second critical section: f.initializeProviders()
initializeProviders(u) ==
    /\ upc[u] = "cleared"
    /\ fproviders' = fproviders \cup ProvidersOf(cfgRead(fcfg, uarg[u]))
    /\ upc' = [upc EXCEPT ![u] = "idle"]
    /\ UNCHANGED <<fcfg, fold, uarg, ucalls, robs>>

\* a reader (GetProvider, GetProviderByName, IsProviderAvailable,
\* ListProviders, GetEnabledProviders) under RLock
ReadProviders ==
    /\ robs' = [set |-> fproviders, old |-> fold, new |-> fcfg]
    /\ UNCHANGED <<fcfg, fold, fproviders, upc, uarg, ucalls>>

(***************************************************************************)
(* Part 10 definitions: retryWithBackoff.                                   *)
(***************************************************************************)
\* largest maxRetries a provider is configured with
MaxConfigured == 3

defaultMaxRetries == 3

retryableStatusCodes == {408, 429, 500, 502, 503, 504}

\* errors an operation rejects with: ProviderError values (statusCode 0
\* stands for an absent status code) and other errors with a code
OperationErrors ==
    [provider : {TRUE}, statusCode : {0, 400, 429, 503}, code : {"NONE"}]
        \cup
    [provider : {FALSE}, statusCode : {0},
     code : {"ECONNRESET", "ETIMEDOUT", "EOTHER"}]

NoError == [provider |-> FALSE, statusCode |-> 0, code |-> "NONE"]

isRetryableError(e) ==
    IF e.provider
        THEN IF e.statusCode # 0
                 THEN e.statusCode \in retryableStatusCodes
                 ELSE FALSE
        ELSE e.code \in {"ECONNRESET", "ETIMEDOUT"}

\* the default value of the maxRetries parameter:
\* this.config.maxRetries || this.defaultMaxRetries  (0 is falsy)
maxRetriesParam(configured) ==
    IF configured # 0 THEN configured ELSE defaultMaxRetries

RetryInit ==
    /\ rcfg = defaultMaxRetries
    /\ rmax = defaultMaxRetries
    /\ attempt = 0
    /\ invocations = 0
    /\ rpc = "idle"
    /\ lastError = NoError

\* a provider configured with maxRetries = n calls retryWithBackoff(op)
retryWithBackoff(n) ==
    /\ rpc # "running"
    /\ rcfg' = n
    /\ rmax' = maxRetriesParam(n)
    /\ attempt' = 0
    /\ invocations' = 0
    /\ rpc' = "running"
    /\ lastError' = NoError

\* return await operation()
OperationResolves ==
    /\ rpc = "running"
    /\ attempt <= rmax
    /\ invocations' = invocations + 1
    /\ rpc' = "returned"
    /\ UNCHANGED <<rcfg, rmax, attempt, lastError>>

\* operation() rejects with e: the catch block, and the loop increment
OperationRejects(e) ==
    /\ rpc = "running"
    /\ attempt <= rmax
    /\ invocations' = invocations + 1
    /\ lastError' = e
    /\ IF attempt = rmax
           THEN rpc' = "exhausted" /\ attempt' = attempt
           ELSE IF ~isRetryableError(e)
                    THEN rpc' = "thrown" /\ attempt' = attempt
                    ELSE rpc' = "running" /\ attempt' = attempt + 1
    /\ UNCHANGED <<rcfg, rmax>>

Init ==
    RunInit /\ PollInit /\ CacheInit /\ LoginInit /\ SaveInit /\
    TranslateInit /\ ConvertInit /\ AuthsInit /\ FactoryInit /\ RetryInit

\* what an executor run leaves alone
RunFrame ==
    UNCHANGED <<pollVars, cacheVars, loginVars, saveVars,
                translateVars, convertVars, authsVars, factoryVars, retryVars>>

\* what a device-flow login leaves alone
PollFrame ==
    UNCHANGED <<runVars, cacheVars, loginVars, saveVars,
                translateVars, convertVars, authsVars, factoryVars, retryVars>>

\* what the token caches leave alone
CacheFrame ==
    UNCHANGED <<runVars, pollVars, loginVars, saveVars,
                translateVars, convertVars, authsVars, factoryVars, retryVars>>

\* what a Login call leaves alone
LoginFrame ==
    UNCHANGED <<runVars, pollVars, cacheVars, saveVars,
                translateVars, convertVars, authsVars, factoryVars, retryVars>>

\* what a save leaves alone
SaveFrame ==
    UNCHANGED <<runVars, pollVars, cacheVars, loginVars,
                translateVars, convertVars, authsVars, factoryVars, retryVars>>

\* what the registry and a translating request leave alone
TranslateFrame ==
    UNCHANGED <<runVars, pollVars, cacheVars, loginVars,
                saveVars, convertVars, authsVars, factoryVars, retryVars>>

ConvertFrame ==
    UNCHANGED <<runVars, pollVars, cacheVars, loginVars,
                saveVars, translateVars, authsVars, factoryVars, retryVars>>

AuthsFrame ==
    UNCHANGED <<runVars, pollVars, cacheVars, loginVars,
                saveVars, translateVars, convertVars, factoryVars, retryVars>>

FactoryFrame ==
    UNCHANGED <<runVars, pollVars, cacheVars, loginVars,
                saveVars, translateVars, convertVars, authsVars, retryVars>>

RetryFrame ==
    UNCHANGED <<runVars, pollVars, cacheVars, loginVars,
                saveVars, translateVars, convertVars, authsVars, factoryVars>>

Next ==
    \/ (\E e \in Executors : ExecuteStream(e)) /\ RunFrame
    \/ (\E e \in Executors : Execute(e)) /\ RunFrame
    \/ ContinueScan /\ RunFrame
    \/ WindsurfScan /\ RunFrame
    \/ V0Scan /\ RunFrame
    \/ BoltScan /\ RunFrame
    \/ SendChunk /\ RunFrame
    \/ CtxDoneInSend /\ RunFrame
    \/ SendErrChunk /\ RunFrame
    \/ Receive /\ RunFrame
    \/ ConsumerStop /\ RunFrame
    \/ CancelCtx /\ RunFrame

Spec == Init /\ [][Next]_vars

\* the goroutine scheduler keeps running a producer that can take a step
FairSpec == Spec /\ WF_vars(Producer /\ RunFrame)

NextPoll ==
    \/ PollForToken /\ PollFrame
    \/ TickerFire /\ PollFrame
    \/ PollCtxDone /\ PollFrame
    \/ ExchangeReturns /\ PollFrame
    \/ PollCancel /\ PollFrame

SpecPoll == Init /\ [][NextPoll]_vars

NextCache ==
    \/ Tick /\ CacheFrame
    \/ (\E i \in Callers : ContinueCheck(i)) /\ CacheFrame
    \/ (\E i \in Callers : ContinueExchangeReturns(i)) /\ CacheFrame
    \/ (\E i \in Callers : CallerReturns(i)) /\ CacheFrame
    \/ (\E i \in Callers : WindsurfCheck(i)) /\ CacheFrame
    \/ (\E i \in Callers : WindsurfStore(i)) /\ CacheFrame
    \/ Relogin /\ CacheFrame

SpecCache == Init /\ [][NextCache]_vars

NextLogin ==
    \/ (\E p \in Providers : Login(p)) /\ LoginFrame
    \/ StartDeviceFlow /\ LoginFrame
    \/ WaitForAuthorization /\ LoginFrame
    \/ VerifyAccess /\ LoginFrame
    \/ LoginReturns /\ LoginFrame

SpecLogin == Init /\ [][NextLogin]_vars

NextSave ==
    \/ SaveTokenToFile /\ SaveFrame
    \/ SaveMkdirAll /\ SaveFrame
    \/ SaveCreate /\ SaveFrame
    \/ SaveEncode /\ SaveFrame
    \/ SaveCrash /\ SaveFrame

SpecSave == Init /\ [][NextSave]_vars

NextTranslate ==
    \/ PackageInit /\ TranslateFrame
    \/ (\E x \in {"continue", "windsurf", "v0"}, from \in Formats,
           stream, tok \in BOOLEAN :
            TranslateExecute(x, from, stream, tok)) /\ TranslateFrame
    \/ (\E f \in [stream : {"absent", "true", "false"},
                    include_usage : {"absent", "true"}] :
            TranslateSend(f)) /\ TranslateFrame

SpecTranslate == Init /\ [][NextTranslate]_vars

NextConvert ==
    \/ (\E p \in {"cursor", "windsurf", "continue"},
           kind \in {"request", "nonstream", "stream"}, in \in ByteStrings :
            ConvertCall(p, kind, in)) /\ ConvertFrame
    \/ (\E wc \in {"absent", "true", "false", "\"true\"", "1"},
           system \in {[kind |-> "absent", items |-> << >>],
                       [kind |-> "string", items |-> <<"s">>],
                       [kind |-> "array", items |-> << >>],
                       [kind |-> "array", items |-> <<"i1">>],
                       [kind |-> "array", items |-> <<"i1", "i2">>]} :
            BoltInject(wc, system)) /\ ConvertFrame

SpecConvert == Init /\ [][NextConvert]_vars

NextAuths ==
    \/ (\E a \in [provider : HealthProviders, disabled : BOOLEAN,
                  status : {"active", "error", "pending"},
                  unavailable : BOOLEAN, expired : BOOLEAN] :
            AddAuth(a)) /\ AuthsFrame
    \/ GetHealth /\ AuthsFrame
    \/ (\E p \in HealthProviders : Select(p)) /\ AuthsFrame

SpecAuths == Init /\ [][NextAuths]_vars

NextFactory ==
    \/ (\E u \in Updaters, c \in SUBSET OptionalProviders :
            UpdateConfiguration(u, c)) /\ FactoryFrame
    \/ (\E u \in Updaters : initializeProviders(u)) /\ FactoryFrame
    \/ ReadProviders /\ FactoryFrame

SpecFactory == Init /\ [][NextFactory]_vars

NextRetry ==
    \/ (\E n \in 0..MaxConfigured : retryWithBackoff(n)) /\ RetryFrame
    \/ OperationResolves /\ RetryFrame
    \/ (\E e \in OperationErrors : OperationRejects(e)) /\ RetryFrame

SpecRetry == Init /\ [][NextRetry]_vars


(***************************************************************************)
(* Properties of executor runs (Spec, FairSpec)                            *)
(***************************************************************************)
IsPrefix(a, b) == Len(a) <= Len(b) /\ SubSeq(b, 1, Len(a)) = a

\* the payload chunks of a sequence of stream chunks
Payloads(q) == SelectSeq(q, LAMBDA c : c # ErrChunk)

\* the error chunks of a sequence of stream chunks
Errors(q) == SelectSeq(q, LAMBDA c : c = ErrChunk)

\* everything the producer has put on the channel, in order
Delivered == received \o ch

StreamEnded == mode = "stream" /\ pc = "done" /\ endKind \in {"eof", "scan_error", "cancelled"}

AbnormalEnds == {"build_error", "transport_error", "status_error", "read_error",
                 "decode_error", "scan_error", "cancelled"}

\* C1: in a streaming run, once the request context is cancelled the producer
\* goroutine terminates, with the output channel and the upstream body closed,
\* whatever the consumer does - also when it stops receiving.
C1_CancelTerminates ==
    (mode = "stream" /\ cancelled)
        ~> (pc = "done" /\ closeCount = 1 /\ body = "closed")

\* C2: on every exit path of the producer (end of stream, scanner error,
\* cancellation) the upstream body is closed and the output channel is closed
\* exactly once; the channel is closed only at exit and nothing is sent on it
\* afterwards.
C2_ClosedOnEveryExit ==
    /\ closeCount <= 1
    /\ ~sendOnClosed
    /\ (closeCount = 1 => pc = "done")
    /\ (StreamEnded => (body = "closed" /\ closeCount = 1))

\* a stream that delivered a chunk and was then ended by cancellation
C2_Witness ==
    /\ StreamEnded
    /\ endKind = "cancelled"
    /\ Delivered # <<>>
    /\ closeCount = 1

\* C3: a terminated run that received upstream bytes has reported exactly one
\* usage outcome, success or failure: never both and never none.
C3_ExactlyOneOutcome ==
    (pc = "done" /\ gotBytes) => (rep.success + rep.failure = 1)

\* C4: a run that ended abnormally after its reporter was created, with no
\* usage success published before, has reported a failure.
C4_FailureOnAbnormalEnd ==
    (pc = "done" /\ rep.created /\ endKind \in AbnormalEnds /\ ~rep.usage)
        => (rep.failure = 1)

\* C5: when the line scanner failed, exactly one error chunk was put on the
\* output channel, as its last element, before the channel was closed.
C5_ErrorChunkOnScannerError ==
    (StreamEnded /\ endKind = "scan_error")
        => /\ Len(Errors(Delivered)) = 1
           /\ Delivered[Len(Delivered)] = ErrChunk

\* C6 as stated: once the producer has finished and the consumer, still
\* receiving, has drained the channel, the chunks received are exactly the
\* chunks the translator produced, in order.
C6_AllProducedDelivered ==
    (StreamEnded /\ consumer = "receiving" /\ ch = <<>>)
        => (Payloads(received) = produced)

\* C6 amended: the chunks received are always a prefix, in order, of the
\* chunks produced (none duplicated or reordered), and none is lost when the
\* producer finished without being cut short by cancellation and the channel
\* has been drained.
C6_OrderedDelivery ==
    /\ IsPrefix(Payloads(Delivered), produced)
    /\ (StreamEnded /\ endKind # "cancelled" /\ ch = <<>>)
            => (Payloads(received) = produced)

\* a finished stream whose consumer received several chunks of several lines
C6_Witness ==
    /\ StreamEnded
    /\ endKind = "eof"
    /\ ch = <<>>
    /\ Len(produced) >= 3
    /\ received = produced

\* C17: a call whose credential yields no token or API key fails with a
\* status error carrying code 401 and sends no chat request upstream.
C17_NoTokenIs401 ==
    (mode # "none" /\ ~hasToken)
        => /\ ret.err.type = "status"
           /\ ret.err.code = StatusUnauthorized
           /\ upstreamCalls = 0

\* C18: a call whose upstream answered with a non-2xx status has returned a
\* status error with exactly that code and the upstream body, no payload and
\* no channel, and the body was closed before the call returned.
C18_StatusErrorOnNon2xx ==
    (mode # "none" /\ upStatus # 0 /\ upStatus \notin 200..299)
        => /\ ret = [err |-> statusErr(upStatus, ErrorBody), payload |-> FALSE,
                      stream |-> FALSE]
           /\ body = "closed"

\* C19: one Execute or ExecuteStream call sends at most one chat request
\* upstream, and every upstream answer it handles is the answer to that one.
C19_AtMostOneUpstreamCall ==
    /\ upstreamCalls <= 1
    /\ (upStatus # 0 => upstreamCalls = 1)

\* a call that sent its one request and failed in transport, without retrying
C19_Witness ==
    /\ pc = "done"
    /\ endKind = "transport_error"
    /\ ret.err = plainErr
    /\ upstreamCalls = 1

(***************************************************************************)
(* Properties of device-flow polling (SpecPoll)                            *)
(***************************************************************************)
\* min(expires_in, 15 min)
ClaimedWait == Min(dcExpiresIn, maxPollDuration)

\* max(interval, 5 s)
ClaimedInterval == IF dcInterval > defaultPollInterval THEN dcInterval ELSE defaultPollInterval

\* C7: when every poll was answered authorization_pending, polling ends with
\* ErrPollingTimeout at a time t with D <= t <= D + I, D = min(expires_in,
\* 15 min) counted from the start of polling and I the poll interval in force.
C7_TimeoutWindow ==
    (pollPc = "done" /\ result = Err("polling_timeout", "none") /\ allPending)
        => (ClaimedWait <= now /\ now <= ClaimedWait + interval)

\* C8: the token request that follows a slow_down answer to a poll made at
\* interval I starts at least I + 5 s after that poll.
C8_SlowDownHonored ==
    (pollPc = "exchange" /\ lastResp = "slow_down")
        => (lastGap >= lastInterval + slowDownStep)

\* a token request started exactly I + 5 s after a poll answered slow_down
C8_Witness ==
    /\ pollPc = "exchange"
    /\ lastResp = "slow_down"
    /\ lastGap = lastInterval + slowDownStep

\* C9: two consecutive token requests are never started less than
\* max(interval, 5 s) apart.
C9_MinimumGap ==
    (pollPc = "exchange" /\ lastGap >= 0) => (lastGap >= ClaimedInterval)

\* C10: the poll loop never returns an authorization_pending or slow_down
\* error: after such an answer the loop only ends by the deadline or the
\* context, and every returned error is of another kind.
C10_PendingStaysInside ==
    /\ result.kind \notin {"authorization_pending", "slow_down"}
    /\ (result.kind = "oauth_error"
            => result.cause \notin {"authorization_pending", "slow_down"})
    /\ (pollPc = "done" /\ lastResp \in {"authorization_pending", "slow_down"})
            => (result.kind = "polling_timeout")

\* a login that was answered slow_down and later ended by the deadline
C10_Witness ==
    /\ pollPc = "done"
    /\ lastResp = "slow_down"
    /\ result = Err("polling_timeout", "none")

\* C11: the first expired_token or access_denied answer ends the login at
\* once with that failure (ErrDeviceCodeExpired, ErrAccessDenied): the loop
\* has returned, so no token request follows the answer.
C11_TerminalAnswerEndsLogin ==
    (lastResp \in {"device_code_expired", "access_denied"})
        => /\ pollPc = "done"
           /\ result = Err(lastResp, "none")
           /\ tokenStatus = 0

\* a login ended by access_denied after an earlier poll
C11_Witness ==
    /\ pollPc = "done"
    /\ lastResp = "access_denied"
    /\ result = Err("access_denied", "none")
    /\ lastGap >= 0

\* C12: polling returns a token only for an answer with a 2xx status and a
\* non-empty access_token; an answer with any other status yields no token.
C12_TokenOnlyOn2xx ==
    (result.kind = "token")
        => (tokenStatus \in 200..299 /\ result.cause # "")

(***************************************************************************)
(* Properties of the token caches (SpecCache)                              *)
(***************************************************************************)
\* C13: ensureAPIToken returns the cached token only while
\* now + 5 min < expires_at: a caller that was given the cached token saw an
\* entry more than the buffer ahead, and a caller that saw an entry at most
\* the buffer ahead went for a fresh token.
C13_NoStaleCachedToken ==
    \A i \in Callers :
        /\ (cdec[i] = "cached") => (cnow[i] + 5 < cseen[i])
        /\ (cdec[i] # "none" /\ cseen[i] >= 0 /\ cseen[i] <= cnow[i] + 5)
                => (cdec[i] \in {"refresh", "failed"})

\* a caller that found an entry exactly the buffer ahead and refreshed, next
\* to one that was given the cached token
C13_Witness ==
    \E i, j \in Callers :
        /\ cdec[i] = "refresh"
        /\ cseen[i] = cnow[i] + 5
        /\ cdec[j] = "cached"

\* C14 as stated: a token expiring 4 min ahead is returned from the cache and
\* one expiring 6 min ahead is refreshed.
C14_FourCachedSixRefreshed ==
    \A i \in Callers :
        /\ (cdec[i] # "none" /\ cseen[i] - cnow[i] = 4) => (cdec[i] = "cached")
        /\ (cdec[i] # "none" /\ cseen[i] - cnow[i] = 6)
                => (cdec[i] \in {"refresh", "failed"})

\* C14 amended: a token expiring 4 min ahead is refreshed and one expiring
\* 6 min ahead is returned from the cache.
C14_FourRefreshedSixCached ==
    \A i \in Callers :
        /\ (cdec[i] # "none" /\ cseen[i] - cnow[i] = 4)
                => (cdec[i] \in {"refresh", "failed"})
        /\ (cdec[i] # "none" /\ cseen[i] - cnow[i] = 6) => (cdec[i] = "cached")

\* one caller served from the cache 6 min ahead of expiry, another
\* refreshing 4 min ahead of it
C14_Witness ==
    \E i, j \in Callers :
        /\ cdec[i] = "cached" /\ cseen[i] - cnow[i] = 6
        /\ cdec[j] = "refresh" /\ cseen[j] - cnow[j] = 4

\* C15: callers of ensureAPIToken for the same credential never have more
\* than one token exchange in flight, and callers that are done with a token
\* after overlapping got the same token.
C15_SingleExchange ==
    /\ Cardinality({i \in Callers : cpc[i] = "exchange"}) <= 1
    /\ \A i, j \in Callers :
          (cdec[i] = "refresh" /\ cdec[j] = "refresh" /\ cpc[i] = "done"
             /\ cpc[j] = "done" /\ cseen[i] = cseen[j])
              => (cgot[i] = cgot[j])

LoginStageFailed ==
    \/ ldevice = "failed"
    \/ lpoll.kind \notin {"none", "token"}
    \/ (lverify # NoVerify /\ ~(lverify.ok /\ lverify.token # ""))

\* C20: when a stage of a device-flow login has failed, Login returns an
\* error and no Auth; an Auth is returned only without an error.
C20_FailedStageNoAuth ==
    /\ (lpc = "done" /\ LoginStageFailed)
            => (lret.err # "none" /\ lret.auth = NoAuth)
    /\ (lret.auth # NoAuth) => (lret.err = "none" /\ lpc = "done")

\* a Continue login whose polling gave a token and whose second-stage
\* exchange failed
C20_Witness ==
    /\ lpc = "done"
    /\ lprov = "continue"
    /\ lpoll.kind = "token"
    /\ lverify # NoVerify
    /\ ~lverify.ok
    /\ lret.err = "verify"

\* C21: a login whose polling gave a token and whose user-info request
\* failed, no other stage failing, succeeds with label "unknown" and id
\* "{provider}-unknown.json".
C21_UnknownLabel ==
    (lpc = "done" /\ lpoll.kind = "token" /\ FetchUserInfo(luinfo) = ""
        /\ ~LoginStageFailed)
        => /\ lret.err = "none"
           /\ lret.auth.label = "unknown"
           /\ lret.auth.id = <<lprov, "-", "unknown", ".json">>

\* a Cursor login that succeeded although the user-info endpoint answered
\* with neither a username nor an email
C21_Witness ==
    /\ lpc = "done"
    /\ lprov = "cursor"
    /\ lpoll.kind = "token"
    /\ luinfo.ok
    /\ FetchUserInfo(luinfo) = ""
    /\ lret.auth.label = "unknown"

\* C22: two successful logins by different provider accounts never produce
\* credentials with the same id.
C22_UniqueIds ==
    (lpc = "done" /\ lret.err = "none" /\ lret.auth.id = lprev.id)
        => (lident = lprev.ident)

\* C23: the message of a failed login is made of fixed texts only: no part
\* of it is text supplied by the provider (an OAuth error_description or an
\* HTTP response body).
C23_NoProviderTextInMessage ==
    (lpc = "done" /\ lret.err # "none")
        => (\A i \in 1..Len(lret.msg) : lret.msg[i] \notin ProviderTexts)

\* the strings a credential carries in its metadata and its storage
AuthValues(a) ==
    {a.access_token, a.label, a.storage.access_token, a.storage.username,
     a.storage.type}

\* C24: the token of the second-stage exchange is in no metadata or storage
\* value of the credential Login returns; of the exchange only a positive
\* expires_at is recorded, as api_token_expires_at.
C24_ApiTokenNotInCredential ==
    (lpc = "done" /\ lverify # NoVerify /\ VerifyOk(lverify))
        => /\ lret.err = "none"
           /\ lverify.token \notin AuthValues(lret.auth)
           /\ lret.auth.api_token_expires_at =
                 (IF lverify.expires > 0 THEN lverify.expires ELSE 0)

\* a Continue login whose exchange gave a token with an expires_at
C24_Witness ==
    /\ lpc = "done"
    /\ lprov = "continue"
    /\ lverify.token = "apit"
    /\ lverify.expires > 0
    /\ lret.auth.api_token_expires_at = lverify.expires
    /\ lret.auth.storage.access_token = lpoll.cause

\* C25: no credential carries a metadata access_token without a metadata
\* timestamp: Login writes both when it builds the credential.
C25_TimestampWithAccessToken ==
    /\ (lret.auth.access_token # "") => (lret.auth.timestamp \in LoginTimes)
    /\ (lret.err = "none" /\ lpc = "done") => (lret.auth.access_token # "")

\* a Cursor login that returned a credential with token and timestamp
C25_Witness ==
    /\ lpc = "done"
    /\ lprov = "cursor"
    /\ lret.auth.access_token = "at"
    /\ lret.auth.timestamp > 0

C27_FileAlwaysComplete ==
    file.len = FileChunks

(***************************************************************************)
(* Properties of the translator registry (SpecTranslate)                   *)
(***************************************************************************)
\* C28: a request whose (From, To) pair has no entry in the registry fails
\* with ErrTranslatorNotRegistered and no upstream call is made for it.
C28_MissingPairNotSent ==
    (treq # NoReq /\ treq.body # "none"
        /\ <<treq.from, treq.to>> \notin registry)
    => /\ ~tsent
       /\ (tpc = "done" => terr = "ErrTranslatorNotRegistered")

\* C29: once the start-up registrations are complete, the registry holds an
\* entry for every pair of a client dialect and a provider dialect.
C29_RegistryClosure ==
    Len(reglog) = Len(Inits)
    => \A F \in ClientFormats, T \in ProviderFormats : <<F, T>> \in registry

\* C30: no (From, To) pair is registered more than once by the start-up
\* registrations.
C30_RegisteredOnce ==
    \A i, j \in DOMAIN reglog : i # j => reglog[i] # reglog[j]

\* start-up is complete, both directions between OpenAI and Windsurf and
\* between OpenAI and Continue having been registered
C30_Witness ==
    /\ Len(reglog) = Len(Inits)
    /\ {<<"Windsurf", "OpenAI">>, <<"OpenAI", "Windsurf">>,
         <<"Continue", "OpenAI">>, <<"OpenAI", "Continue">>} \subseteq registry
    /\ Cardinality(registry) = Len(reglog)
\* C32: the body sent upstream has "stream" equal to the call mode, and
\* for a streaming call to Continue, Windsurf or v0 it has
\* stream_options.include_usage set to true.
C32_StreamFieldsMatchMode ==
    tsent =>
        /\ treq.sent.stream = (IF treq.stream THEN "true" ELSE "false")
        /\ treq.stream => treq.sent.include_usage = "true"

(***************************************************************************)
(* Properties of the transformers and of injectBoltContext (SpecConvert)   *)
(***************************************************************************)
\* C31: the transformers of the OpenAI-compatible pairs are byte-identity:
\* the request and the non-streaming transformer return their input, the
\* streaming transformer returns every line as exactly one chunk.
C31_ByteIdentity ==
    /\ conv.kind \in {"request", "nonstream"} => conv.out = conv.in
    /\ conv.kind = "stream" => conv.out = <<conv.in>>

C35_HealthyOnlyIfAvailable ==
    health.status = "healthy"
    => \E i \in DOMAIN auths :
            /\ auths[i].status = "active"
            /\ ~auths[i].disabled
            /\ ~auths[i].unavailable

\* C39: in every health snapshot tokens_valid[p] is true only if
\* connection_status[p] is "connected".
C39_ValidOnlyIfConnected ==
    \A p \in HealthProviders :
        health.providers.valid[p] = "true"
        => health.providers.status[p] = "connected"
(***************************************************************************)
(* Properties of ProviderFactory (SpecFactory)                             *)
(***************************************************************************)
\* C36: a reader running concurrently with UpdateConfiguration sees the
\* provider set of the old or of the new configuration, and in particular
\* never misses Gemini CLI, Antigravity and Cursor.
C36_ReadersSeeOldOrNew ==
    robs # NoObs =>
        /\ AlwaysRegistered \subseteq robs.set
        /\ robs.set \in {ProvidersOf(robs.old), ProvidersOf(robs.new)}

\* C37: when every UpdateConfiguration call has returned, the provider set
\* is exactly the one of the configuration the factory holds.
C37_FinalSetMatchesCfg ==
    (\A u \in Updaters : upc[u] = "idle") => fproviders = ProvidersOf(fcfg)

\* two updaters were given different configurations, every call has
\* returned and the factory holds a configuration with optional providers
C37_Witness ==
    /\ \A u \in Updaters : upc[u] = "idle"
    /\ ucalls >= 2
    /\ uarg[1] # uarg[2]
    /\ fold # fcfg
    /\ fproviders = ProvidersOf(fcfg)
    /\ fcfg # {}
(***************************************************************************)
(* Properties of retryWithBackoff (SpecRetry).                              *)
(***************************************************************************)
\* C40: a retryWithBackoff call invokes the operation at most N + 1 times,
\* N being the provider's configured maxRetries (N = 0 included).
C40_AtMostNPlusOne ==
    invocations <= rcfg + 1

\* once a call has returned or thrown, it invokes the operation no more
\* (the counter only changes when a new call starts from 0)
RetryStopsAfterOutcome ==
    [][rpc # "running" => (invocations' = invocations \/ invocations' = 0)]_vars

\* a call that stopped on an error before exhausting its attempts stopped
\* on a non-retryable one, after exactly attempt + 1 invocations
RetryThrowsNonRetryable ==
    rpc = "thrown" =>
        /\ ~isRetryableError(lastError)
        /\ invocations = attempt + 1

\* the operation is invoked at most maxRetries + 1 times for the maxRetries
\* parameter the call runs with
RetryAtMostParamPlusOne ==
    invocations <= rmax + 1

\* C38: the token a call of ensureAPIToken returns was obtained from the
\* access token the credential holds: after a re-login under the same id no
\* call returns a token exchanged from the previous access token.
C38_TokenFromCurrentAccessToken ==
    \A i \in Callers :
        (cpc[i] = "done" /\ cgot[i] # 0) => cfrom[i] = cred.access_token

\* the Windsurf executor alone keeps it: its cache is keyed by the access
\* token and the token is the access token
WindsurfTokenFromCurrentAccessToken ==
    cexec = "windsurf" =>
        \A i \in Callers :
            (cpc[i] = "done" /\ cgot[i] # 0) => cfrom[i] = cred.access_token

\* a Windsurf call made after the re-login
WindsurfServedAfterRelogin ==
    /\ cexec = "windsurf"
    /\ cred = Relogged(Credential)
    /\ \E i \in Callers : cpc[i] = "done" /\ cgot[i] = WindsurfToken("at2")

====
